---- MODULE Spec2Model ----
(***************************************************************************)
(* tx2-pack: the container codec (SnapshotWriter / SnapshotReader), the    *)
(* directory store (SnapshotStore), the CheckpointManager and the          *)
(* ReplayEngine.                                                           *)
(*                                                                         *)
(* Byte strings are sequences of cells.  A cell stands for one fixed-width *)
(* field of an encoding: [enc, k, v] = (the serializer that wrote it, the  *)
(* field it holds, the value).  Lengths and offsets are counted in cells.  *)
(* Hashing, compression and AEAD are the usual symbolic idealisations: a   *)
(* digest is the term sha(data), a ciphertext cell names its key and nonce.*)
(***************************************************************************)
EXTENDS Integers, Sequences, FiniteSets, TLC

VARIABLES
    files,      \* SnapshotStore: the directory, file name -> content (cells)
    cache,      \* CheckpointManager.checkpoints: id -> Checkpoint
    chain,      \* CheckpointManager.checkpoint_chain
    last,       \* the last manager call: operation, arguments, result
    hist,       \* history: was the directory empty at new(), did a store call fail
    buf,        \* codec: the container bytes under test
    wr,         \* codec: the write that produced buf
    rd,         \* codec: the last read of buf
    engine,     \* ReplayEngine: checkpoints, current_index, loop_replay
    played,     \* the last ReplayEngine call: operation, argument, result
    travel,     \* TimeTravel: snapshots, current_time
    timed,      \* the last TimeTravel call: operation, argument, result
    world,      \* the tx2_link::WorldSnapshot handed to from_world_snapshot
    packed,     \* what from_world_snapshot returned for it
    writing,    \* a write_to_file call in progress: its position and bytes
    reading     \* a read_from_file call in progress: what it has read so far

vars == <<files, cache, chain, last, hist, buf, wr, rd, engine, played, travel, timed,
         world, packed, writing, reading>>

(***************************************************************************)
(* Bounds                                                                  *)
(***************************************************************************)
MaxChain == 3       \* longest chain the manager is driven to
MaxCorrupt == 2     \* cells of a container changed before it is read
UsizeBits == 8      \* width of usize / u64 arithmetic, scaled down from 64

UsizeMod == 2 ^ UsizeBits

Range(s) == {s[i] : i \in 1..Len(s)}
Min(a, b) == IF a < b THEN a ELSE b

\* &s[from..to]: the elements at 0-based positions from..to-1.
Slice(s, from, to) == [i \in 1..(to - from) |-> s[from + i]]

\* chrono::Utc::now().timestamp(): the clock does not move in the model.
Now == 0

\* Option<T>: None is <<>>, Some(x) is <<x>>.
None == <<>>
Some(x) == <<x>>

(***************************************************************************)
(* format.rs                                                               *)
(***************************************************************************)
MAGIC_NUMBER == "TX2PACK"
FORMAT_VERSION == 1

PackFormat == <<"Bincode", "MessagePack", "Custom">>
CompressionType == <<"None", "Zstd", "Lz4">>

\* bincode writes an enum as the index of its variant (0-based).
VariantIndex(enum, x) == (CHOOSE i \in 1..Len(enum) : enum[i] = x) - 1

Cell(enc, k, v) == [enc |-> enc, k |-> k, v |-> v]

\* [0u8; 32], the checksum of a header that no writer has filled in.
ZeroChecksum == [k |-> "zero", v |-> <<>>]

SnapshotHeader_new(timestamp) ==
    [ magic |-> MAGIC_NUMBER, version |-> FORMAT_VERSION,
      format |-> "Bincode", compression |-> "Zstd", encrypted |-> FALSE,
      checksum |-> ZeroChecksum, timestamp |-> timestamp,
      entity_count |-> 0, component_count |-> 0, archetype_count |-> 0,
      data_offset |-> 0, data_size |-> 0,
      metadata_offset |-> 0, metadata_size |-> 0 ]

\* Declaration order of SnapshotHeader: serde writes the fields in this order.
HeaderFields ==
    << "magic", "version", "format", "compression", "encrypted", "checksum",
       "timestamp", "entity_count", "component_count", "archetype_count",
       "data_offset", "data_size", "metadata_offset", "metadata_size" >>

\* u32::to_string: the decimal digits, most significant first.
RECURSIVE to_string(_)
to_string(n) ==
    IF n < 10 THEN <<n>> ELSE to_string(n \div 10) \o <<n % 10>>

\* A PackError value: its variant and, for VersionMismatch, its two fields.
PackError(kind, expected, actual) ==
    [kind |-> kind, expected |-> expected, actual |-> actual]
NoError == PackError("Ok", <<>>, <<>>)

validate_swapped(header) ==
    IF header.version # FORMAT_VERSION
    THEN PackError("VersionMismatch", to_string(FORMAT_VERSION),
                   to_string(header.version))
    ELSE IF header.magic # MAGIC_NUMBER THEN PackError("InvalidFormat", <<>>, <<>>)
    ELSE NoError

validate(header) ==
    IF header.magic # MAGIC_NUMBER THEN PackError("InvalidFormat", <<>>, <<>>)
    ELSE IF header.version # FORMAT_VERSION
    THEN PackError("VersionMismatch", to_string(FORMAT_VERSION),
                   to_string(header.version))
    ELSE NoError

PackedSnapshot_new(timestamp) ==
    [ header |-> SnapshotHeader_new(timestamp),
      archetypes |-> 0, entity_metadata |-> 0 ]

(***************************************************************************)
(* format.rs: PackedSnapshot::from_world_snapshot.  Here archetypes is the  *)
(* Vec itself, a sequence of [component_id, entity_ids, data], since the    *)
(* conversion is about its elements; a tx2_link::WorldSnapshot is           *)
(* [timestamp, entities], an entity [id, components], a component [id].     *)
(***************************************************************************)
\* component_map.entry(component.id).or_insert_with(..), then
\* archetype.entity_ids.push(entity.id)
push_entity(component_map, component_id, entity_id) ==
    IF component_id \in DOMAIN component_map
    THEN [component_map EXCEPT ![component_id].entity_ids = Append(@, entity_id)]
    ELSE [c \in (DOMAIN component_map) \cup {component_id} |->
            IF c = component_id
            THEN [ component_id |-> component_id, entity_ids |-> <<entity_id>>,
                   data |-> [blob |-> <<>>] ]
            ELSE component_map[c]]

\* for component in &entity.components
RECURSIVE components_loop(_, _, _)
components_loop(component_map, entity_id, components) ==
    IF components = <<>> THEN component_map
    ELSE components_loop(push_entity(component_map, Head(components).id, entity_id),
                         entity_id, Tail(components))

\* for entity in &snapshot.entities
RECURSIVE entities_loop(_, _)
entities_loop(component_map, entities) ==
    IF entities = <<>> THEN component_map
    ELSE entities_loop(components_loop(component_map, Head(entities).id,
                                       Head(entities).components),
                       Tail(entities))

\* The orders into_values() can yield the values of the map in: a hash map
\* promises none.
IterationOrders(component_map) ==
    { order \in [1..Cardinality(DOMAIN component_map) -> DOMAIN component_map] :
        \A i, j \in DOMAIN order : order[i] = order[j] => i = j }

from_world_snapshot(snapshot, order) ==
    LET entity_count == Len(snapshot.entities)
        component_map == entities_loop(<<>>, snapshot.entities)
        archetypes == [i \in DOMAIN order |-> component_map[order[i]]]
    IN [ header |-> [SnapshotHeader_new(snapshot.timestamp) EXCEPT
                        !.entity_count = entity_count,
                        !.component_count = Len(archetypes),
                        !.archetype_count = Len(archetypes)],
         archetypes |-> archetypes,
         entity_metadata |-> 0 ]

(***************************************************************************)
(* The wire encodings (bincode, rmp_serde) of a header and of a snapshot   *)
(***************************************************************************)
FieldValue(header, f) ==
    CASE f = "format" -> VariantIndex(PackFormat, header.format)
      [] f = "compression" -> VariantIndex(CompressionType, header.compression)
      [] f = "encrypted" -> IF header.encrypted THEN 1 ELSE 0
      [] OTHER -> header[f]

serialize_header(enc, header) ==
    [i \in 1..Len(HeaderFields) |->
        Cell(enc, HeaderFields[i], FieldValue(header, HeaderFields[i]))]

\* Does data start with a header written by enc?  Every field is there, under
\* its own name, and the enum and bool cells hold a valid tag.
HeaderWellFormed(enc, data) ==
    /\ Len(data) >= Len(HeaderFields)
    /\ \A i \in 1..Len(HeaderFields) :
          /\ data[i].enc = enc
          /\ data[i].k = HeaderFields[i]
    /\ data[3].v \in 0..(Len(PackFormat) - 1)
    /\ data[4].v \in 0..(Len(CompressionType) - 1)
    /\ data[5].v \in {0, 1}

HeaderOf(data) ==
    [ magic |-> data[1].v, version |-> data[2].v,
      format |-> PackFormat[data[3].v + 1],
      compression |-> CompressionType[data[4].v + 1],
      encrypted |-> (data[5].v = 1),
      checksum |-> data[6].v, timestamp |-> data[7].v,
      entity_count |-> data[8].v, component_count |-> data[9].v,
      archetype_count |-> data[10].v,
      data_offset |-> data[11].v, data_size |-> data[12].v,
      metadata_offset |-> data[13].v, metadata_size |-> data[14].v ]

\* bincode::deserialize::<SnapshotHeader>: reads the header from the front of
\* the buffer and ignores what follows it.
deserialize_header(bytes) ==
    IF HeaderWellFormed("bincode", bytes)
    THEN [res |-> "Ok", header |-> Some(HeaderOf(bytes))]
    ELSE [res |-> "Bincode", header |-> None]

EncodingOf(format) == IF format = "Bincode" THEN "bincode" ELSE "msgpack"

\* The body of a container: the whole PackedSnapshot, its header included.
\* archetypes is the number of archetypes of the snapshot: the Vec is encoded
\* as its length followed by one cell for each archetype.
serialize_snapshot(snapshot) ==
    IF snapshot.header.format = "Custom"
    THEN [res |-> "Serialization", bytes |-> <<>>]
    ELSE LET enc == EncodingOf(snapshot.header.format) IN
         [ res |-> "Ok",
           bytes |-> serialize_header(enc, snapshot.header)
                       \o << Cell(enc, "archetypes", snapshot.archetypes) >>
                       \o [i \in 1..snapshot.archetypes |-> Cell(enc, "archetype", i)]
                       \o << Cell(enc, "entity_metadata", snapshot.entity_metadata) >> ]

deserialize_snapshot(data, format) ==
    IF format = "Custom"
    THEN [res |-> "Deserialization", snapshot |-> None]
    ELSE LET enc == EncodingOf(format)
             n == Len(HeaderFields) IN
         IF /\ HeaderWellFormed(enc, data)
            /\ Len(data) >= n + 2
            /\ data[n + 1].enc = enc /\ data[n + 1].k = "archetypes"
            /\ Len(data) = n + 2 + data[n + 1].v
            /\ \A i \in 1..data[n + 1].v :
                  data[n + 1 + i] = Cell(enc, "archetype", i)
            /\ data[Len(data)].enc = enc /\ data[Len(data)].k = "entity_metadata"
         THEN [ res |-> "Ok",
                snapshot |-> Some([ header |-> HeaderOf(data),
                                    archetypes |-> data[n + 1].v,
                                    entity_metadata |-> data[Len(data)].v ]) ]
         ELSE [res |-> "Deserialization", snapshot |-> None]

(***************************************************************************)
(* compression.rs                                                          *)
(***************************************************************************)
\* CompressionCodec: None, Zstd(level), Lz4.
Codec(family, level) == [family |-> family, level |-> level]
zstd_default == Codec("Zstd", 3)
zstd_fast == Codec("Zstd", 1)
zstd_best == Codec("Zstd", 19)
lz4_default == Codec("Lz4", 0)
codec_none == Codec("None", 0)

\* impl From<CompressionCodec> for CompressionType
CompressionType_from(codec) == codec.family

\* A compressed stream is its frame marker followed by the data; the level
\* shapes the real bytes only, and no reader needs it.
compress(data, codec) ==
    IF codec.family = "None" THEN data
    ELSE <<Cell(codec.family, "frame", 0)>> \o data

\* The capacity zstd::bulk::decompress is given: 100 MiB, here three cells
\* more than a header, so that a snapshot of two archetypes goes over it.
ZstdCapacity == Len(HeaderFields) + 3

decompress_uncapped(data, compression_type) ==
    IF compression_type = "None" THEN [res |-> "Ok", bytes |-> data]
    ELSE IF Len(data) >= 1 /\ data[1].enc = compression_type /\ data[1].k = "frame"
         THEN [res |-> "Ok", bytes |-> Tail(data)]
         ELSE [res |-> "Decompression", bytes |-> <<>>]

decompress(data, compression_type) ==
    IF compression_type = "None" THEN [res |-> "Ok", bytes |-> data]
    ELSE IF Len(data) >= 1 /\ data[1].enc = compression_type /\ data[1].k = "frame"
         THEN IF compression_type = "Zstd" /\ Len(data) - 1 > ZstdCapacity
              THEN [res |-> "Decompression", bytes |-> <<>>]
              ELSE [res |-> "Ok", bytes |-> Tail(data)]
         ELSE [res |-> "Decompression", bytes |-> <<>>]

(***************************************************************************)
(* encryption.rs (feature "encryption")                                    *)
(***************************************************************************)
\* One cell holds the 12-byte nonce, one the 16-byte GCM tag.
NonceLen == 1

encrypt_snapshot(data, key, nonce) ==
    LET n == Cell("aead", "nonce", nonce) IN
    <<n>> \o [i \in 1..Len(data) |->
                Cell("aead", "ct", [key |-> key, nonce |-> n, plain |-> data[i]])]
        \o <<Cell("aead", "gcm_tag", [key |-> key, nonce |-> n, plain |-> data])>>

decrypt_snapshot_any_key(data, key) ==
    IF Len(data) < NonceLen THEN [res |-> "Decryption", bytes |-> <<>>]
    ELSE LET m == Len(data) - 2 IN
         IF m >= 0 /\ \A i \in 2..(m + 1) : data[i].enc = "aead" /\ data[i].k = "ct"
         THEN [res |-> "Ok", bytes |-> [i \in 1..m |-> data[i + 1].v.plain]]
         ELSE [res |-> "Decryption", bytes |-> <<>>]

decrypt_snapshot(data, key) ==
    IF Len(data) < NonceLen THEN [res |-> "Decryption", bytes |-> <<>>]
    ELSE LET nonce == data[1]
             ciphertext == Tail(data)
             m == Len(ciphertext) - 1
             plain == [i \in 1..m |-> ciphertext[i].v.plain]
         IN
         IF /\ m >= 0
            /\ \A i \in 1..m :
                  /\ ciphertext[i].enc = "aead" /\ ciphertext[i].k = "ct"
                  /\ ciphertext[i].v.key = key /\ ciphertext[i].v.nonce = nonce
            /\ ciphertext[m + 1].enc = "aead" /\ ciphertext[m + 1].k = "gcm_tag"
            /\ ciphertext[m + 1].v = [key |-> key, nonce |-> nonce, plain |-> plain]
         THEN [res |-> "Ok", bytes |-> plain]
         ELSE [res |-> "Decryption", bytes |-> <<>>]

(***************************************************************************)
(* storage.rs: SnapshotWriter                                              *)
(***************************************************************************)
\* SHA-256, collision-free: the digest names the data it was taken over.
compute_checksum(data) == [k |-> "sha", v |-> data]

SnapshotWriter_new == [compression |-> zstd_default, encryption_key |-> None]
with_compression(writer, codec) == [writer EXCEPT !.compression = codec]
with_encryption(x, key) == [x EXCEPT !.encryption_key = Some(key)]

\* Lines 86-98 (and 44-56): serialize, compress, encrypt when a key is set.
final_data(writer, snapshot, nonce) ==
    LET serialized == serialize_snapshot(snapshot) IN
    IF serialized.res # "Ok" THEN [res |-> serialized.res, bytes |-> <<>>]
    ELSE LET compressed == compress(serialized.bytes, writer.compression) IN
         [ res |-> "Ok",
           bytes |-> IF writer.encryption_key # None
                     THEN encrypt_snapshot(compressed, writer.encryption_key[1], nonce)
                     ELSE compressed ]

final_header_unmeasured(writer, snapshot, payload) ==
    [ snapshot.header EXCEPT
        !.compression = CompressionType_from(writer.compression),
        !.encrypted = (writer.encryption_key # None),
        !.checksum = compute_checksum(payload),
        !.data_size = Len(payload) ]

\* Lines 100-114 (and 58-72): the header that frames the payload.  It is
\* encoded once to measure it, data_offset is set, and it is encoded again.
final_header(writer, snapshot, payload) ==
    LET header == [ snapshot.header EXCEPT
                      !.compression = CompressionType_from(writer.compression),
                      !.encrypted = (writer.encryption_key # None),
                      !.checksum = compute_checksum(payload),
                      !.data_size = Len(payload) ]
        header_bytes == serialize_header("bincode", header)
    IN [header EXCEPT !.data_offset = Len(header_bytes)]

write_to_bytes(writer, snapshot, nonce) ==
    LET data == final_data(writer, snapshot, nonce) IN
    IF data.res # "Ok" THEN [res |-> data.res, bytes |-> <<>>]
    ELSE LET header == final_header(writer, snapshot, data.bytes)
             final_header_bytes == serialize_header("bincode", header)
         IN [res |-> "Ok", bytes |-> final_header_bytes \o data.bytes]

\* The directory: a function from the names of the files it holds.
Put(f, path, content) ==
    [n \in (DOMAIN f) \cup {path} |-> IF n = path THEN content ELSE f[n]]
Remove(f, path) == [n \in (DOMAIN f) \ {path} |-> f[n]]
exists(f, path) == path \in DOMAIN f

\* io names the step of write_to_file the environment fails, "ok" for none:
\* File::create, the header write_all, the payload write_all, sync_all.
WriteFaults == {"ok", "create", "write_header", "write_payload", "sync_all"}

write_to_file(f, writer, snapshot, path, nonce, io) ==
    LET data == final_data(writer, snapshot, nonce) IN
    IF data.res # "Ok" THEN [res |-> data.res, files |-> f]
    ELSE LET header == final_header(writer, snapshot, data.bytes)
             final_header_bytes == serialize_header("bincode", header)
         IN CASE io = "create" -> [res |-> "Io", files |-> f]
              [] io = "write_header" -> [res |-> "Io", files |-> Put(f, path, <<>>)]
              [] io = "write_payload" ->
                    [res |-> "Io", files |-> Put(f, path, final_header_bytes)]
              [] io = "sync_all" ->
                    [res |-> "Io", files |-> Put(f, path, final_header_bytes \o data.bytes)]
              [] OTHER ->
                    [res |-> "Ok", files |-> Put(f, path, final_header_bytes \o data.bytes)]

(***************************************************************************)
(* storage.rs: SnapshotReader                                              *)
(***************************************************************************)
SnapshotReader_new == [encryption_key |-> None]

verify_checksum_skipped(data, expected) == "Ok"

verify_checksum(data, expected) ==
    IF compute_checksum(data) # expected THEN "ChecksumMismatch" ELSE "Ok"

\* usize addition: a debug build panics on overflow, a release build wraps.
Builds == {"debug", "release"}
usize_add(a, b, build) ==
    IF a + b >= UsizeMod
    THEN IF build = "debug" THEN [panic |-> TRUE, v |-> 0]
         ELSE [panic |-> FALSE, v |-> (a + b) % UsizeMod]
    ELSE [panic |-> FALSE, v |-> a + b]

\* error is the PackError returned; only validate's carries fields.
Result(res, snapshot, stages) ==
    [ res |-> res, snapshot |-> snapshot, stages |-> stages,
      error |-> PackError(res, <<>>, <<>>) ]

decode_payload_keyless_plain(reader, header, data, stages) ==
    LET decrypted ==
            IF header.encrypted /\ reader.encryption_key # None
            THEN decrypt_snapshot(data, reader.encryption_key[1])
            ELSE [res |-> "Ok", bytes |-> data]
        s1 == IF header.encrypted THEN Append(stages, "decrypt") ELSE stages
    IN
    IF decrypted.res # "Ok" THEN Result(decrypted.res, None, s1)
    ELSE LET decompressed == decompress(decrypted.bytes, header.compression)
             s2 == Append(s1, "decompress")
         IN
         IF decompressed.res # "Ok" THEN Result(decompressed.res, None, s2)
         ELSE LET body == deserialize_snapshot(decompressed.bytes, header.format) IN
              Result(body.res, body.snapshot, Append(s2, "deserialize"))

\* Lines 230-247: decrypt when the header says so, decompress, deserialize.
decode_payload(reader, header, data, stages) ==
    LET decrypted ==
            IF header.encrypted
            THEN IF reader.encryption_key = None
                 THEN [res |-> "Decryption", bytes |-> <<>>]
                 ELSE decrypt_snapshot(data, reader.encryption_key[1])
            ELSE [res |-> "Ok", bytes |-> data]
        s1 == IF header.encrypted THEN Append(stages, "decrypt") ELSE stages
    IN
    IF decrypted.res # "Ok" THEN Result(decrypted.res, None, s1)
    ELSE LET decompressed == decompress(decrypted.bytes, header.compression)
             s2 == Append(s1, "decompress")
         IN
         IF decompressed.res # "Ok" THEN Result(decompressed.res, None, s2)
         ELSE LET body == deserialize_snapshot(decompressed.bytes, header.format) IN
              Result(body.res, body.snapshot, Append(s2, "deserialize"))

\* stages lists the stages the call ran, in the order it ran them; the last
\* one is the stage that failed when res is not "Ok".
read_from_bytes(reader, bytes, build) ==
    LET parsed == deserialize_header(bytes) IN
    IF parsed.res # "Ok" THEN Result(parsed.res, None, <<"header">>)
    ELSE
    LET header == parsed.header[1]
        valid == validate(header)
    IN
    IF valid.kind = "InvalidFormat"
    THEN [Result(valid.kind, None, <<"header", "magic">>) EXCEPT !.error = valid]
    ELSE IF valid.kind # "Ok"
    THEN [ Result(valid.kind, None, <<"header", "magic", "version">>)
              EXCEPT !.error = valid ]
    ELSE
    LET s3 == <<"header", "magic", "version", "bounds">>
        data_start == header.data_offset
        data_end == usize_add(data_start, header.data_size, build)
    IN
    IF data_end.panic THEN Result("Panic", None, s3)
    ELSE IF data_end.v > Len(bytes) THEN Result("InvalidFormat", None, s3)
    \* &bytes[data_start..data_end] panics when the range is not in the buffer.
    ELSE IF data_start > data_end.v THEN Result("Panic", None, s3)
    ELSE
    LET data == Slice(bytes, data_start, data_end.v)
        s4 == Append(s3, "checksum")
    IN
    IF verify_checksum(data, header.checksum) # "Ok"
    THEN Result("ChecksumMismatch", None, s4)
    ELSE decode_payload(reader, header, data, s4)

\* io: "ok", or "read" when File::open / read_to_end fails.
read_from_file(f, reader, path, build, io) ==
    IF ~exists(f, path) \/ io = "read" THEN Result("Io", None, <<"open">>)
    ELSE read_from_bytes(reader, f[path], build)

(***************************************************************************)
(* File names.  A name is a sequence of characters; "." is the one the     *)
(* store looks at, and a run of other characters is written as one element.*)
(***************************************************************************)
snapshot_path(id) == id \o <<".", "tx2pack">>
metadata_path(id) == id \o <<".", "meta", ".", "json">>

\* std::path: the position of the last "." of a file name, 0 when it has none.
LastDot(name) ==
    IF \E i \in 1..Len(name) : name[i] = "."
    THEN CHOOSE i \in 1..Len(name) :
            name[i] = "." /\ \A j \in (i + 1)..Len(name) : name[j] # "."
    ELSE 0

\* Path::extension: None when the name has no "." or only a leading one.
extension(name) ==
    IF LastDot(name) <= 1 THEN None
    ELSE Some(Slice(name, LastDot(name), Len(name)))

\* Path::file_stem: the name up to its last ".", the whole name when it has
\* no extension.
file_stem(name) ==
    IF LastDot(name) <= 1 THEN name
    ELSE Slice(name, 0, LastDot(name) - 1)

(***************************************************************************)
(* metadata.rs                                                             *)
(***************************************************************************)
SnapshotMetadata_new(id) ==
    [ id |-> id, name |-> None, description |-> None, created_at |-> Now,
      world_time |-> 0, schema_version |-> 1, custom_fields |-> <<>>,
      tags |-> <<>> ]

\* serde_json::to_string_pretty / from_str of the sidecar.
to_string_pretty(metadata) == <<Cell("json", "metadata", metadata)>>
from_str(text) ==
    IF Len(text) = 1 /\ text[1].enc = "json" /\ text[1].k = "metadata"
    THEN [res |-> "Ok", metadata |-> Some(text[1].v)]
    ELSE [res |-> "Json", metadata |-> None]

(***************************************************************************)
(* storage.rs: SnapshotStore                                               *)
(***************************************************************************)
\* The steps of save the environment can fail: those of write_to_file, then
\* creating and writing the sidecar (std::fs::write).
SaveFaults == WriteFaults \cup {"meta_create", "meta_write"}

save(f, snapshot, metadata, writer, nonce, io) ==
    LET path == snapshot_path(metadata.id)
        w == write_to_file(f, writer, snapshot, path, nonce,
                           IF io \in WriteFaults THEN io ELSE "ok")
        metadata_path_ == metadata_path(metadata.id)
        metadata_json == to_string_pretty(metadata)
    IN
    IF w.res # "Ok" THEN [res |-> w.res, files |-> w.files]
    ELSE CASE io = "meta_create" -> [res |-> "Io", files |-> w.files]
           [] io = "meta_write" ->
                 [res |-> "Io", files |-> Put(w.files, metadata_path_, <<>>)]
           [] OTHER ->
                 [res |-> "Ok", files |-> Put(w.files, metadata_path_, metadata_json)]

LoadFaults == {"ok", "read", "meta_read"}

\* load that takes a missing sidecar for a missing snapshot.
load_sidecar_required(f, id, reader, build, io) ==
    IF ~exists(f, snapshot_path(id)) \/ ~exists(f, metadata_path(id))
    THEN [res |-> "SnapshotNotFound", snapshot |-> None, metadata |-> None]
    ELSE [res |-> "Io", snapshot |-> None, metadata |-> None]

load(f, id, reader, build, io) ==
    LET path == snapshot_path(id)
        metadata_path_ == metadata_path(id)
    IN
    IF ~exists(f, path)
    THEN [res |-> "SnapshotNotFound", snapshot |-> None, metadata |-> None]
    ELSE
    LET r == read_from_file(f, reader, path, build, IF io = "read" THEN io ELSE "ok") IN
    IF r.res # "Ok" THEN [res |-> r.res, snapshot |-> None, metadata |-> None]
    ELSE IF exists(f, metadata_path_)
    THEN IF io = "meta_read"
         THEN [res |-> "Io", snapshot |-> None, metadata |-> None]
         ELSE LET parsed == from_str(f[metadata_path_]) IN
              IF parsed.res # "Ok"
              THEN [res |-> parsed.res, snapshot |-> None, metadata |-> None]
              ELSE [res |-> "Ok", snapshot |-> r.snapshot, metadata |-> parsed.metadata]
    ELSE [ res |-> "Ok", snapshot |-> r.snapshot,
           metadata |-> Some(SnapshotMetadata_new(id)) ]

DeleteFaults == {"ok", "remove_snapshot", "remove_metadata"}

\* delete that removes without asking whether the files exist.
delete_unchecked(f, id, io) ==
    IF ~exists(f, snapshot_path(id)) \/ ~exists(f, metadata_path(id))
    THEN [res |-> "Io", files |-> f]
    ELSE [res |-> "Ok", files |-> Remove(Remove(f, snapshot_path(id)), metadata_path(id))]

delete(f, id, io) ==
    LET path == snapshot_path(id)
        metadata_path_ == metadata_path(id)
    IN
    IF exists(f, path) /\ io = "remove_snapshot" THEN [res |-> "Io", files |-> f]
    ELSE
    LET f1 == IF exists(f, path) THEN Remove(f, path) ELSE f IN
    IF exists(f1, metadata_path_) /\ io = "remove_metadata"
    THEN [res |-> "Io", files |-> f1]
    ELSE [ res |-> "Ok",
           files |-> IF exists(f1, metadata_path_) THEN Remove(f1, metadata_path_)
                     ELSE f1 ]

ListFaults == {"ok", "read_dir"}

\* The stems of the entries whose extension is tx2pack.  The Vec comes in the
\* order the directory is iterated, which the OS decides: it is read as a set.
list(f, io) ==
    IF io = "read_dir" THEN [res |-> "Io", ids |-> {}]
    ELSE [ res |-> "Ok",
           ids |-> { file_stem(n) : n \in {x \in DOMAIN f : extension(x) = Some(<<"tx2pack">>)} } ]

(***************************************************************************)
(* checkpoint.rs                                                           *)
(***************************************************************************)
Checkpoint_new(id, snapshot) ==
    [ id |-> id, snapshot |-> snapshot, metadata |-> SnapshotMetadata_new(id),
      parent_id |-> None ]
with_parent(checkpoint, parent_id) == [checkpoint EXCEPT !.parent_id = Some(parent_id)]

\* A manager is [files, cache, chain]; a call returns the manager it leaves
\* with its result: res, and ret where it returns a value.  The manager's
\* writer and reader are the ones CheckpointManager::new makes.
Outcome(files_, cache_, chain_, res, ret) ==
    [files |-> files_, cache |-> cache_, chain |-> chain_, res |-> res, ret |-> ret]

get_checkpoint_chain(m) == m.chain
get_latest_checkpoint(m) ==
    IF m.chain = <<>> THEN None ELSE Some(m.chain[Len(m.chain)])

create_checkpoint_push_first(m, id, snapshot, nonce, io) ==
    LET parent_id == get_latest_checkpoint(m)
        checkpoint == IF parent_id # None
                      THEN with_parent(Checkpoint_new(id, snapshot), parent_id[1])
                      ELSE Checkpoint_new(id, snapshot)
        s == save(m.files, checkpoint.snapshot, checkpoint.metadata,
                  SnapshotWriter_new, nonce, io)
    IN Outcome(s.files, m.cache, Append(m.chain, id), s.res, None)

\* create_checkpoint without the insert of line 86.
create_checkpoint_uncached(m, id, snapshot, nonce, io) ==
    LET s == save(m.files, snapshot, SnapshotMetadata_new(id), SnapshotWriter_new, nonce, io)
    IN
    IF s.res # "Ok" THEN Outcome(s.files, m.cache, m.chain, s.res, None)
    ELSE Outcome(s.files, m.cache, Append(m.chain, id), "Ok", None)

create_checkpoint_first_parent(m, id, snapshot, nonce, io) ==
    LET checkpoint == IF m.chain # <<>>
                      THEN with_parent(Checkpoint_new(id, snapshot), m.chain[1])
                      ELSE Checkpoint_new(id, snapshot)
        s == save(m.files, checkpoint.snapshot, checkpoint.metadata,
                  SnapshotWriter_new, nonce, io)
    IN
    IF s.res # "Ok" THEN Outcome(s.files, m.cache, m.chain, s.res, None)
    ELSE Outcome(s.files, Put(m.cache, id, checkpoint), Append(m.chain, id), "Ok", None)

create_checkpoint(m, id, snapshot, nonce, io) ==
    LET parent_id == IF m.chain # <<>> THEN Some(m.chain[Len(m.chain)]) ELSE None
        checkpoint == IF parent_id # None
                      THEN with_parent(Checkpoint_new(id, snapshot), parent_id[1])
                      ELSE Checkpoint_new(id, snapshot)
        s == save(m.files, checkpoint.snapshot, checkpoint.metadata,
                  SnapshotWriter_new, nonce, io)
    IN
    IF s.res # "Ok" THEN Outcome(s.files, m.cache, m.chain, s.res, None)
    ELSE Outcome(s.files, Put(m.cache, id, checkpoint), Append(m.chain, id), "Ok", None)

load_checkpoint_chain_parent(m, id, build, io) ==
    IF id \in DOMAIN m.cache
    THEN Outcome(m.files, m.cache, m.chain, "Ok", Some(m.cache[id]))
    ELSE LET l == load(m.files, id, SnapshotReader_new, build, io) IN
         IF l.res # "Ok" THEN Outcome(m.files, m.cache, m.chain, l.res, None)
         ELSE LET checkpoint == [ id |-> id, snapshot |-> l.snapshot[1],
                                  metadata |-> l.metadata[1],
                                  parent_id |-> get_latest_checkpoint(m) ]
              IN Outcome(m.files, Put(m.cache, id, checkpoint), m.chain, "Ok",
                         Some(checkpoint))

load_checkpoint_uncached(m, id, build, io) ==
    LET l == load(m.files, id, SnapshotReader_new, build, io) IN
    IF l.res # "Ok" THEN Outcome(m.files, m.cache, m.chain, l.res, None)
    ELSE LET checkpoint == [ id |-> id, snapshot |-> l.snapshot[1],
                             metadata |-> l.metadata[1], parent_id |-> None ]
         IN Outcome(m.files, Put(m.cache, id, checkpoint), m.chain, "Ok",
                    Some(checkpoint))

load_checkpoint(m, id, build, io) ==
    IF id \in DOMAIN m.cache
    THEN Outcome(m.files, m.cache, m.chain, "Ok", Some(m.cache[id]))
    ELSE LET l == load(m.files, id, SnapshotReader_new, build, io) IN
         IF l.res # "Ok" THEN Outcome(m.files, m.cache, m.chain, l.res, None)
         ELSE LET checkpoint == [ id |-> id, snapshot |-> l.snapshot[1],
                                  metadata |-> l.metadata[1], parent_id |-> None ]
              IN Outcome(m.files, Put(m.cache, id, checkpoint), m.chain, "Ok",
                         Some(checkpoint))

\* Vec::retain(|cid| cid != id)
RECURSIVE retain_not(_, _)
retain_not(s, id) ==
    IF s = <<>> THEN <<>>
    ELSE IF Head(s) # id THEN <<Head(s)>> \o retain_not(Tail(s), id)
    ELSE retain_not(Tail(s), id)

delete_checkpoint_cache_first(m, id, io) ==
    LET d == delete(m.files, id, io) IN
    Outcome(d.files, Remove(m.cache, id), retain_not(m.chain, id), d.res, None)

delete_checkpoint(m, id, io) ==
    LET d == delete(m.files, id, io) IN
    IF d.res # "Ok" THEN Outcome(d.files, m.cache, m.chain, d.res, None)
    ELSE Outcome(d.files, Remove(m.cache, id), retain_not(m.chain, id), "Ok", None)

list_checkpoints(m, io) ==
    LET l == list(m.files, io) IN Outcome(m.files, m.cache, m.chain, l.res, l.ids)

\* The loop of prune_old_checkpoints, at its i-th pass with `left` passes to
\* go.  The environment fails pass `at` with fault io (at = 0: no pass).
RECURSIVE prune_loop(_, _, _, _, _)
prune_loop(m, left, i, at, io) ==
    IF left = 0 THEN Outcome(m.files, m.cache, m.chain, "Ok", None)
    ELSE IF m.chain = <<>> THEN prune_loop(m, left - 1, i + 1, at, io)
    ELSE LET d == delete_checkpoint(m, Head(m.chain), IF i = at THEN io ELSE "ok") IN
         IF d.res # "Ok" THEN d ELSE prune_loop(d, left - 1, i + 1, at, io)

prune_old_checkpoints(m, keep_count, at, io) ==
    LET chain_len == Len(m.chain) IN
    IF chain_len <= keep_count THEN Outcome(m.files, m.cache, m.chain, "Ok", None)
    ELSE prune_loop(m, chain_len - keep_count, 1, at, io)

\* The loop of clear_all_checkpoints over ids, the clone of the chain.
RECURSIVE clear_loop(_, _, _, _, _)
clear_loop(m, ids, i, at, io) ==
    IF ids = <<>> THEN Outcome(m.files, m.cache, m.chain, "Ok", None)
    ELSE LET d == delete_checkpoint(m, Head(ids), IF i = at THEN io ELSE "ok") IN
         IF d.res # "Ok" THEN d ELSE clear_loop(d, Tail(ids), i + 1, at, io)

clear_all_checkpoints(m, at, io) == clear_loop(m, m.chain, 1, at, io)

(***************************************************************************)
(* replay.rs: ReplayEngine.  current_index counts from 0, as in the code;  *)
(* checkpoints is the VecDeque as a sequence.                              *)
(***************************************************************************)
ReplayEngine_new == [checkpoints |-> <<>>, current_index |-> 0, loop_replay |-> FALSE]
with_loop(e, enabled) == [e EXCEPT !.loop_replay = enabled]

\* What an engine call leaves: the engine, the Result and the value returned.
Played(e, res, ret) == [engine |-> e, res |-> res, ret |-> ret]

add_checkpoint(e, checkpoint) ==
    Played([e EXCEPT !.checkpoints = Append(@, checkpoint)], "Ok", None)

\* VecDeque::get(current_index)
current(e) ==
    IF e.current_index < Len(e.checkpoints)
    THEN Some(e.checkpoints[e.current_index + 1])
    ELSE None

\* The loop of load_from_manager over the ids left of the chain; acc is the
\* engine's checkpoints so far.  It stops at the first load that fails.
RECURSIVE load_loop(_, _, _, _, _)
\* One turn of the loop: o is the outcome of manager.load_checkpoint(&id);
\* the ? operator returns its error, otherwise the checkpoint is pushed.
load_turn(o, ids, acc, build, io) ==
    IF o.res # "Ok"
    THEN [manager |-> [files |-> o.files, cache |-> o.cache, chain |-> o.chain],
          checkpoints |-> acc, res |-> o.res]
    ELSE load_loop([files |-> o.files, cache |-> o.cache, chain |-> o.chain],
                   Tail(ids), Append(acc, o.ret[1]), build, io)

load_loop(m, ids, acc, build, io) ==
    IF ids = <<>> THEN [manager |-> m, checkpoints |-> acc, res |-> "Ok"]
    ELSE load_turn(load_checkpoint(m, Head(ids), build, io), ids, acc, build, io)

\* The engine after the loop l: current_index is reset only on success.
loaded(e, l) ==
    [ engine |-> IF l.res = "Ok"
                 THEN [e EXCEPT !.checkpoints = l.checkpoints, !.current_index = 0]
                 ELSE [e EXCEPT !.checkpoints = l.checkpoints],
      manager |-> l.manager, res |-> l.res, ret |-> None ]

\* load_from_manager without the clear of line 37.
load_from_manager_no_clear(e, m, build, io) ==
    loaded(e, load_loop(m, get_checkpoint_chain(m), e.checkpoints, build, io))

\* Returns the engine and the manager after the call.
load_from_manager(e, m, build, io) ==
    loaded(e, load_loop(m, get_checkpoint_chain(m), <<>>, build, io))

\* next that, looping, stays at the last index instead of going back to 0.
next_no_rewind(e) ==
    IF e.current_index + 1 < Len(e.checkpoints)
    THEN LET e2 == [e EXCEPT !.current_index = @ + 1] IN Played(e2, "Ok", current(e2))
    ELSE IF e.loop_replay /\ e.checkpoints # <<>>
    THEN Played(e, "Ok", current(e))
    ELSE Played(e, "Ok", None)

next_past_end(e) ==
    IF e.loop_replay /\ e.current_index + 1 >= Len(e.checkpoints)
    THEN LET e2 == [e EXCEPT !.current_index = 0] IN Played(e2, "Ok", current(e2))
    ELSE LET e2 == [e EXCEPT !.current_index = @ + 1] IN Played(e2, "Ok", current(e2))

next(e) ==
    IF e.current_index + 1 < Len(e.checkpoints)
    THEN LET e2 == [e EXCEPT !.current_index = @ + 1] IN Played(e2, "Ok", current(e2))
    ELSE IF e.loop_replay /\ e.checkpoints # <<>>
    THEN LET e2 == [e EXCEPT !.current_index = 0] IN Played(e2, "Ok", current(e2))
    ELSE Played(e, "Ok", None)

previous_no_wrap(e) ==
    IF e.current_index > 0
    THEN LET e2 == [e EXCEPT !.current_index = @ - 1] IN Played(e2, "Ok", current(e2))
    ELSE Played(e, "Ok", None)

previous(e) ==
    IF e.current_index > 0
    THEN LET e2 == [e EXCEPT !.current_index = @ - 1] IN Played(e2, "Ok", current(e2))
    ELSE IF e.loop_replay /\ e.checkpoints # <<>>
    THEN LET e2 == [e EXCEPT !.current_index = Len(e.checkpoints) - 1]
         IN Played(e2, "Ok", current(e2))
    ELSE Played(e, "Ok", None)

seek_unchecked(e, index) ==
    LET e2 == [e EXCEPT !.current_index = index] IN
    IF current(e2) = None THEN Played(e2, "InvalidCheckpoint", None)
    ELSE Played(e2, "Ok", current(e2))

seek(e, index) ==
    IF index >= Len(e.checkpoints) THEN Played(e, "InvalidCheckpoint", None)
    ELSE LET e2 == [e EXCEPT !.current_index = index] IN
         IF current(e2) = None THEN Played(e2, "InvalidCheckpoint", None)
         ELSE Played(e2, "Ok", current(e2))

seek_to_start(e) ==
    LET e2 == [e EXCEPT !.current_index = 0] IN Played(e2, "Ok", current(e2))

seek_to_end(e) ==
    LET e2 == IF e.checkpoints # <<>>
              THEN [e EXCEPT !.current_index = Len(e.checkpoints) - 1]
              ELSE e
    IN Played(e2, "Ok", current(e2))

get_index(e) == e.current_index
len(e) == Len(e.checkpoints)
is_empty(e) == e.checkpoints = <<>>

clear_keep_index(e) == Played([e EXCEPT !.checkpoints = <<>>], "Ok", None)

clear(e) == Played([e EXCEPT !.checkpoints = <<>>, !.current_index = 0], "Ok", None)

NoPlay == [op |-> "new", arg |-> 0, res |-> "Ok", ret |-> None]

(***************************************************************************)
(* f64.  A time is a number or NaN; the numbers of the model are integers, *)
(* on which the subtractions and comparisons of the code are exact.        *)
(***************************************************************************)
F64(v) == [nan |-> FALSE, v |-> v]
NaN == [nan |-> TRUE, v |-> 0]

\* Every comparison with a NaN is false.
lt(a, b) == ~a.nan /\ ~b.nan /\ a.v < b.v
le(a, b) == ~a.nan /\ ~b.nan /\ a.v <= b.v
gt(a, b) == ~a.nan /\ ~b.nan /\ a.v > b.v
ge(a, b) == ~a.nan /\ ~b.nan /\ a.v >= b.v

partial_cmp(a, b) ==
    IF a.nan \/ b.nan THEN None
    ELSE Some(IF a.v < b.v THEN "Less" ELSE IF a.v = b.v THEN "Equal" ELSE "Greater")

sub(a, b) == IF a.nan \/ b.nan THEN NaN ELSE F64(a.v - b.v)
abs(a) == IF a.nan THEN NaN ELSE F64(IF a.v < 0 THEN 0 - a.v ELSE a.v)

(***************************************************************************)
(* replay.rs: TimeTravel.  A sample is the pair <<time, snapshot>>; the    *)
(* indices of find_snapshot_at_time count from 0, as in the code.          *)
(***************************************************************************)
TimeTravel_new == [snapshots |-> <<>>, current_time |-> F64(0)]

\* What a call leaves: the TimeTravel, how the call ended, the value returned.
Travelled(tt, res, ret) == [travel |-> tt, res |-> res, ret |-> ret]

\* Vec::sort_by with |a, b| a.0.partial_cmp(&b.0).unwrap(): a stable sort.
\* x goes behind every element that is not greater than it.
sort_insert(sorted, x) ==
    LET p == Cardinality({i \in 1..Len(sorted) : partial_cmp(sorted[i][1], x[1]) # Some("Greater")})
    IN Slice(sorted, 0, p) \o <<x>> \o Slice(sorted, p, Len(sorted))

RECURSIVE sort_by(_)
sort_by(v) ==
    IF v = <<>> THEN <<>>
    ELSE sort_insert(sort_by(Slice(v, 0, Len(v) - 1)), v[Len(v)])

\* The unwrap panics on the first comparison with a NaN.  A slice of fewer
\* than two elements is sorted without a comparison; in a longer one every
\* element is compared at least once.
sort_panics(v) == Len(v) >= 2 /\ \E i \in 1..Len(v) : v[i][1].nan

record_unsorted(tt, pushed, time) ==
    Travelled([tt EXCEPT !.snapshots = pushed, !.current_time = time], "Ok", None)

\* Lines 149-150 of record, after the push: the panic unwinds before
\* current_time is set.
record_sorted(tt, pushed, time) ==
    IF sort_panics(pushed)
    THEN Travelled([tt EXCEPT !.snapshots = pushed], "Panic", None)
    ELSE Travelled([tt EXCEPT !.snapshots = sort_by(pushed), !.current_time = time],
                   "Ok", None)

record(tt, time, snapshot) ==
    record_sorted(tt, Append(tt.snapshots, <<time, snapshot>>), time)

lower_bound_le(snapshots, target_time, left, right) ==
    Cardinality({i \in 1..Len(snapshots) : le(snapshots[i][1], target_time)})

\* The while loop of find_snapshot_at_time: the value of left at its end.
RECURSIVE lower_bound(_, _, _, _)
lower_bound(snapshots, target_time, left, right) ==
    IF left < right
    THEN IF lt(snapshots[((left + right) \div 2) + 1][1], target_time)
         THEN lower_bound(snapshots, target_time, ((left + right) \div 2) + 1, right)
         ELSE lower_bound(snapshots, target_time, left, (left + right) \div 2)
    ELSE left

nearest_tie_earlier(snapshots, target_time, left) ==
    IF left > 0 /\ (left >= Len(snapshots) \/
          ge(abs(sub(snapshots[left + 1][1], target_time)),
             abs(sub(target_time, snapshots[left][1]))))
    THEN Some(left - 1)
    ELSE IF left < Len(snapshots) THEN Some(left)
    ELSE IF left > 0 THEN Some(left - 1)
    ELSE None

\* Lines 222-232 of find_snapshot_at_time.
nearest(snapshots, target_time, left) ==
    IF left > 0 /\ (left >= Len(snapshots) \/
          gt(abs(sub(snapshots[left + 1][1], target_time)),
             abs(sub(target_time, snapshots[left][1]))))
    THEN Some(left - 1)
    ELSE IF left < Len(snapshots) THEN Some(left)
    ELSE IF left > 0 THEN Some(left - 1)
    ELSE None

find_snapshot_at_time(tt, target_time) ==
    IF tt.snapshots = <<>> THEN None
    ELSE nearest(tt.snapshots, target_time,
                 lower_bound(tt.snapshots, target_time, 0, Len(tt.snapshots)))

seek_to_keep_time(tt, index) ==
    IF index = None THEN Travelled(tt, "Ok", None)
    ELSE Travelled(tt, "Ok", Some(tt.snapshots[index[1] + 1][2]))

\* Lines 155-156 of seek_to_time, after the ? on the index.
seek_to(tt, index) ==
    IF index = None THEN Travelled(tt, "Ok", None)
    ELSE Travelled([tt EXCEPT !.current_time = tt.snapshots[index[1] + 1][1]],
                   "Ok", Some(tt.snapshots[index[1] + 1][2]))

seek_to_time(tt, target_time) == seek_to(tt, find_snapshot_at_time(tt, target_time))

snapshot_at(tt, index) ==
    IF index = None THEN None ELSE Some(tt.snapshots[index[1] + 1][2])

get_snapshot_at_time(tt, time) == snapshot_at(tt, find_snapshot_at_time(tt, time))

get_current_snapshot(tt) == get_snapshot_at_time(tt, tt.current_time)

get_earliest_time(tt) ==
    IF tt.snapshots = <<>> THEN None ELSE Some(tt.snapshots[1][1])

get_latest_time(tt) ==
    IF tt.snapshots = <<>> THEN None ELSE Some(tt.snapshots[Len(tt.snapshots)][1])

get_current_time(tt) == tt.current_time

fork_at_time(tt, time) == get_snapshot_at_time(tt, time)

\* Vec::retain is SelectSeq.
prune_before_exclusive(tt, time) ==
    Travelled([tt EXCEPT !.snapshots = SelectSeq(@, LAMBDA x : gt(x[1], time))], "Ok", None)

prune_before(tt, time) ==
    Travelled([tt EXCEPT !.snapshots = SelectSeq(@, LAMBDA x : ge(x[1], time))], "Ok", None)

prune_after(tt, time) ==
    Travelled([tt EXCEPT !.snapshots = SelectSeq(@, LAMBDA x : le(x[1], time))], "Ok", None)

TimeTravel_clear(tt) ==
    Travelled([tt EXCEPT !.snapshots = <<>>, !.current_time = F64(0)], "Ok", None)

TimeTravel_len(tt) == Len(tt.snapshots)
TimeTravel_is_empty(tt) == tt.snapshots = <<>>

\* nan: a NaN time has been given to record since new().
NoTravel == [op |-> "new", arg |-> F64(0), res |-> "Ok", ret |-> None, nan |-> FALSE]

(***************************************************************************)
(* The codec driven as a state machine: one container is written, some of  *)
(* its cells are changed, and it is read.                                  *)
(***************************************************************************)
Keys == {"K1", "K2"}            \* EncryptionKey values
Nonces == {1}                   \* what OsRng draws for a nonce
Formats == Range(PackFormat)

CodecSnapshots ==
    { [ header |-> [SnapshotHeader_new(Now) EXCEPT !.format = f],
        archetypes |-> a, entity_metadata |-> 0 ] :
        f \in Formats, a \in {1} }

Writers ==
    { [compression |-> c, encryption_key |-> k] :
        c \in {codec_none, zstd_default, lz4_default},
        k \in {None, Some("K1")} }

Readers == { [encryption_key |-> k] : k \in {None} \cup {Some(x) : x \in Keys} }

NoWrite ==
    [ done |-> FALSE, writer |-> SnapshotWriter_new,
      snapshot |-> PackedSnapshot_new(Now), res |-> "none", corrupted |-> 0,
      path |-> None ]
NoRead ==
    [ done |-> FALSE, reader |-> SnapshotReader_new, build |-> "debug",
      result |-> Result("none", None, <<>>) ]

NoWorld == [timestamp |-> 0, entities |-> <<>>]
NoPacked == [done |-> FALSE, snapshot |-> from_world_snapshot(NoWorld, <<>>)]
NoWriting ==
    [ pc |-> "idle", bytes |-> <<>>, header_len |-> 0, pos |-> 0,
      snapshot |-> None, written |-> {}, calls |-> 0 ]
NoReading ==
    [ pc |-> "idle", reader |-> SnapshotReader_new, build |-> "debug",
      all_data |-> <<>>, torn |-> FALSE,
      result |-> Result("none", None, <<>>) ]

NoCall ==
    [ op |-> "new", id |-> <<>>, keep |-> 0, res |-> "Ok", ret |-> None,
      listing |-> {}, hit |-> FALSE ]

ManagerIdle ==
    /\ files = <<>> /\ cache = <<>> /\ chain = <<>>
    /\ last = NoCall /\ hist = [fresh |-> TRUE, failed |-> FALSE]
    /\ engine = ReplayEngine_new /\ played = NoPlay
    /\ travel = TimeTravel_new /\ timed = NoTravel
    /\ world = NoWorld /\ packed = NoPacked
    /\ writing = NoWriting /\ reading = NoReading

CodecInit == ManagerIdle /\ buf = <<>> /\ wr = NoWrite /\ rd = NoRead

\* A write_to_bytes call of one of the writers ws on one of the snapshots ss.
WriteBytes(ws, ss) ==
    /\ ~wr.done
    /\ \E writer \in ws, snapshot \in ss, nonce \in Nonces :
          \* the nonce is drawn only when there is a key to encrypt with
          /\ writer.encryption_key = None => nonce = 1
          /\ LET w == write_to_bytes(writer, snapshot, nonce) IN
             /\ buf' = w.bytes
             /\ wr' = [ done |-> TRUE, writer |-> writer, snapshot |-> snapshot,
                        res |-> w.res, corrupted |-> 0, path |-> None ]
    /\ UNCHANGED <<files, cache, chain, last, hist, rd, engine, played, travel, timed, world, packed, writing, reading>>

WriteToBytes == WriteBytes(Writers, CodecSnapshots)

CodecPath == <<"out", ".", "tx2pack">>

WriteFile(ws, ss) ==
    /\ ~wr.done
    /\ \E writer \in ws, snapshot \in ss, nonce \in Nonces, io \in WriteFaults :
          /\ writer.encryption_key = None => nonce = 1
          /\ LET w == write_to_file(files, writer, snapshot, CodecPath, nonce, io) IN
             /\ files' = w.files
             /\ wr' = [ done |-> TRUE, writer |-> writer, snapshot |-> snapshot,
                        res |-> w.res, corrupted |-> 0, path |-> Some(CodecPath) ]
    /\ UNCHANGED <<cache, chain, last, hist, buf, rd, engine, played, travel, timed, world, packed, writing, reading>>

WriteToFile == WriteFile(Writers, CodecSnapshots)

\* Other values a header field can be overwritten with: a wrong magic, an
\* old version, the other enum tags and one that names no variant, and
\* offsets and sizes below, just above and far above the real ones.
Alternatives(c) ==
    CASE c.k = "magic" -> {"XX2PACK"}
      [] c.k = "version" -> {0, 12} \ {c.v}
      [] c.k \in {"format", "compression"} -> (0..3) \ {c.v}
      [] c.k = "encrypted" -> {1 - c.v}
      [] c.k = "checksum" -> {ZeroChecksum}
      [] c.k = "data_offset" -> {0, Len(HeaderFields) + 1, UsizeMod - 1} \ {c.v}
      [] c.k = "data_size" -> {0, Len(buf), UsizeMod - 1} \ {c.v}
      [] OTHER -> {}

\* A header cell takes another value of its type; a payload cell is replaced.
Corrupt ==
    /\ wr.done /\ wr.res = "Ok" /\ ~rd.done /\ wr.corrupted < MaxCorrupt
    /\ \E p \in 1..Len(buf) :
          \/ /\ p <= Len(HeaderFields)
             /\ buf[p].enc = "bincode"
             /\ \E v \in Alternatives(buf[p]) : buf' = [buf EXCEPT ![p].v = v]
          \/ /\ p > Len(HeaderFields)
             /\ buf[p].enc # "junk"
             /\ buf' = [buf EXCEPT ![p] = Cell("junk", "junk", 0)]
    /\ wr' = [wr EXCEPT !.corrupted = @ + 1]
    /\ UNCHANGED <<files, cache, chain, last, hist, rd, engine, played, travel, timed, world, packed, writing, reading>>

Truncate ==
    /\ wr.done /\ wr.res = "Ok" /\ ~rd.done /\ wr.corrupted < MaxCorrupt
    /\ \E n \in {0, Len(HeaderFields), Len(buf) - 1} :
          /\ n < Len(buf)
          /\ buf' = Slice(buf, 0, n)
    /\ wr' = [wr EXCEPT !.corrupted = @ + 1]
    /\ UNCHANGED <<files, cache, chain, last, hist, rd, engine, played, travel, timed, world, packed, writing, reading>>

ReadFromBytes ==
    /\ wr.done /\ wr.res = "Ok" /\ wr.path = None /\ ~rd.done
    /\ \E reader \in Readers, build \in Builds :
          rd' = [ done |-> TRUE, reader |-> reader, build |-> build,
                  result |-> read_from_bytes(reader, buf, build) ]
    /\ UNCHANGED <<files, cache, chain, last, hist, buf, wr, engine, played, travel, timed, world, packed, writing, reading>>

\* The file is read back whether or not the write got through.
ReadFromFile ==
    /\ wr.done /\ wr.path # None /\ ~rd.done
    /\ \E reader \in Readers, build \in Builds, io \in {"ok", "read"} :
          rd' = [ done |-> TRUE, reader |-> reader, build |-> build,
                  result |-> read_from_file(files, reader, wr.path[1], build, io) ]
    /\ UNCHANGED <<files, cache, chain, last, hist, buf, wr, engine, played, travel, timed, world, packed, writing, reading>>

CodecNext ==
    \/ WriteToBytes
    \/ WriteToFile
    \/ Corrupt
    \/ Truncate
    \/ ReadFromBytes
    \/ ReadFromFile

SpecCodec == CodecInit /\ [][CodecNext]_vars

(***************************************************************************)
(* Round trips: every codec and key, snapshots below and above the zstd    *)
(* capacity, containers read as they were written                          *)
(***************************************************************************)
MaxArchetypes == 2

AllCodecs == {codec_none, zstd_fast, zstd_default, zstd_best, lz4_default}

RoundTripWriters ==
    { [compression |-> c, encryption_key |-> k] :
        c \in AllCodecs, k \in {None} \cup {Some(x) : x \in Keys} }

RoundTripSnapshots ==
    { [ header |-> [SnapshotHeader_new(Now) EXCEPT !.format = f],
        archetypes |-> a, entity_metadata |-> e ] :
        f \in Formats, a \in 0..MaxArchetypes, e \in {0, 1} }

WriteAnyToBytes == WriteBytes(RoundTripWriters, RoundTripSnapshots)
WriteAnyToFile == WriteFile(RoundTripWriters, RoundTripSnapshots)

RoundTripNext ==
    \/ WriteAnyToBytes
    \/ WriteAnyToFile
    \/ ReadFromBytes
    \/ ReadFromFile

SpecRoundTrip == CodecInit /\ [][RoundTripNext]_vars

(***************************************************************************)
(* The CheckpointManager driven as a state machine                         *)
(***************************************************************************)
Ids == {<<>>, <<"a">>}

ManagerSnapshots ==
    { PackedSnapshot_new(Now),
      [PackedSnapshot_new(Now) EXCEPT !.header.format = "Custom"] }

EmptyDir == <<>>

\* What new() may find in root_dir: nothing, or one snapshot saved earlier.
InitDirs ==
    {EmptyDir} \cup
    { save(EmptyDir, PackedSnapshot_new(Now), SnapshotMetadata_new(id),
           SnapshotWriter_new, 1, "ok").files : id \in {<<"a">>} }

\* The faults the manager is driven with: one before the snapshot file is
\* created, one that leaves it half written, one after it is complete.
ManagerSaveFaults == {"ok", "create", "write_payload", "meta_create"}
ManagerLoadFaults == {"ok", "read"}

Manager == [files |-> files, cache |-> cache, chain |-> chain]

Call(op, id, keep, o) ==
    [ op |-> op, id |-> id, keep |-> keep, res |-> o.res,
      ret |-> IF op = "load" THEN o.ret ELSE None,
      listing |-> IF op = "list" /\ o.res = "Ok" THEN o.ret ELSE {},
      hit |-> (op = "load" /\ id \in DOMAIN cache) ]

\* The manager after a call, and the record of the call.
Becomes(op, id, keep, o) ==
    /\ files' = o.files
    /\ cache' = o.cache
    /\ chain' = o.chain
    /\ last' = Call(op, id, keep, o)
    /\ hist' = [hist EXCEPT !.failed = @ \/ o.res # "Ok"]
    /\ UNCHANGED <<buf, wr, rd, engine, played, travel, timed, world, packed, writing, reading>>

Init ==
    /\ files \in InitDirs
    /\ cache = <<>>
    /\ chain = <<>>
    /\ last = NoCall
    /\ hist = [fresh |-> (files = EmptyDir), failed |-> FALSE]
    /\ buf = <<>> /\ wr = NoWrite /\ rd = NoRead
    /\ engine = ReplayEngine_new /\ played = NoPlay
    /\ travel = TimeTravel_new /\ timed = NoTravel
    /\ world = NoWorld /\ packed = NoPacked
    /\ writing = NoWriting /\ reading = NoReading

CreateCheckpoint ==
    /\ Len(chain) < MaxChain
    /\ \E id \in Ids, snapshot \in ManagerSnapshots, nonce \in Nonces, io \in ManagerSaveFaults :
          \* a Custom snapshot fails in the serializer, before any I/O
          /\ snapshot.header.format = "Custom" => io = "ok"
          /\ Becomes("create", id, 0, create_checkpoint(Manager, id, snapshot, nonce, io))

LoadCheckpoint ==
    \E id \in Ids, build \in Builds, io \in ManagerLoadFaults :
        Becomes("load", id, 0, load_checkpoint(Manager, id, build, io))

DeleteCheckpoint ==
    \E id \in Ids, io \in DeleteFaults :
        Becomes("delete", id, 0, delete_checkpoint(Manager, id, io))

ListCheckpoints ==
    \E io \in ListFaults :
        Becomes("list", <<>>, 0, list_checkpoints(Manager, io))

PruneOldCheckpoints ==
    \E keep_count \in 0..MaxChain, at \in 0..MaxChain, io \in DeleteFaults :
        /\ (at = 0) = (io = "ok")
        /\ Becomes("prune", <<>>, keep_count,
                   prune_old_checkpoints(Manager, keep_count, at, io))

ClearAllCheckpoints ==
    \E at \in 0..MaxChain, io \in DeleteFaults :
        /\ (at = 0) = (io = "ok")
        /\ Becomes("clear", <<>>, 0, clear_all_checkpoints(Manager, at, io))

Next ==
    \/ CreateCheckpoint
    \/ LoadCheckpoint
    \/ DeleteCheckpoint
    \/ ListCheckpoints
    \/ PruneOldCheckpoints
    \/ ClearAllCheckpoints

Spec == Init /\ [][Next]_vars

(***************************************************************************)
(* A ReplayEngine driven next to a CheckpointManager                       *)
(***************************************************************************)
MaxReplay == 3

AsManager(o) == [files |-> o.files, cache |-> o.cache, chain |-> o.chain]

\* The managers the engine loads from, each the result of manager calls on a
\* new manager: no checkpoint; one; two, the second with its parent link;
\* the second alone after the first was deleted; a checkpoint that was in the
\* directory, loaded into the cache and not part of the chain.
ManagerAfterCreate(m, id) ==
    AsManager(create_checkpoint(m, id, PackedSnapshot_new(Now), 1, "ok"))

ManagerAfterDelete(m, id) == AsManager(delete_checkpoint(m, id, "ok"))

ManagerAfterLoad(m, id) == AsManager(load_checkpoint(m, id, "release", "ok"))

EmptyManager == [files |-> EmptyDir, cache |-> <<>>, chain |-> <<>>]

\* m1 holds "a"; m2 holds "a" and ""; the third has deleted "a" from m2.
ManagersOf(m1, m2) == {m1, m2, ManagerAfterDelete(m2, <<"a">>)}

ManagersFrom(m1) == ManagersOf(m1, ManagerAfterCreate(m1, <<>>))

ReplayManagers ==
    {EmptyManager} \cup ManagersFrom(ManagerAfterCreate(EmptyManager, <<"a">>)) \cup
       { ManagerAfterLoad([files |-> d, cache |-> <<>>, chain |-> <<>>], <<"a">>) :
           d \in InitDirs \ {EmptyDir} }

ReplayInit ==
    /\ \E m \in ReplayManagers :
          /\ files = m.files /\ cache = m.cache /\ chain = m.chain
          /\ hist = [fresh |-> FALSE, failed |-> FALSE]
    /\ last = NoCall
    /\ buf = <<>> /\ wr = NoWrite /\ rd = NoRead
    /\ \E enabled \in BOOLEAN : engine = with_loop(ReplayEngine_new, enabled)
    /\ played = NoPlay
    /\ travel = TimeTravel_new /\ timed = NoTravel
    /\ world = NoWorld /\ packed = NoPacked
    /\ writing = NoWriting /\ reading = NoReading

\* The engine after a call, and the record of the call.
EngineBecomes(op, arg, o) ==
    /\ engine' = o.engine
    /\ played' = [op |-> op, arg |-> arg, res |-> o.res, ret |-> o.ret]
    /\ UNCHANGED <<files, cache, chain, last, hist, buf, wr, rd, travel, timed, world, packed, writing, reading>>

AddCheckpoint ==
    /\ Len(engine.checkpoints) < MaxReplay
    /\ \E id \in Ids :
          EngineBecomes("add_checkpoint", 0,
                        add_checkpoint(engine, Checkpoint_new(id, PackedSnapshot_new(Now))))

EngineAndManagerBecome(o) ==
    /\ engine' = o.engine
    /\ played' = [op |-> "load_from_manager", arg |-> 0, res |-> o.res, ret |-> None]
    /\ files' = o.manager.files
    /\ cache' = o.manager.cache
    /\ chain' = o.manager.chain
    /\ UNCHANGED <<last, hist, buf, wr, rd, travel, timed, world, packed, writing, reading>>

LoadFromManager ==
    \E io \in ManagerLoadFaults :
        EngineAndManagerBecome(load_from_manager(engine, Manager, "release", io))

StepNext == EngineBecomes("next", 0, next(engine))
StepPrevious == EngineBecomes("previous", 0, previous(engine))
Seek == \E index \in 0..(MaxReplay + 1) : EngineBecomes("seek", index, seek(engine, index))
SeekToStart == EngineBecomes("seek_to_start", 0, seek_to_start(engine))
SeekToEnd == EngineBecomes("seek_to_end", 0, seek_to_end(engine))
ClearEngine == EngineBecomes("clear", 0, clear(engine))

ReplayNext ==
    \/ AddCheckpoint
    \/ LoadFromManager
    \/ StepNext
    \/ StepPrevious
    \/ Seek
    \/ SeekToStart
    \/ SeekToEnd
    \/ ClearEngine

SpecReplay == ReplayInit /\ [][ReplayNext]_vars

(***************************************************************************)
(* A ReplayEngine on which next() is called again and again: the engine    *)
(* holds 1..MaxReplay checkpoints and stands at any of them.               *)
(***************************************************************************)
\* The engine after add_checkpoint for each of ids, in order.
RECURSIVE EngineHolding(_, _)
EngineHolding(e, ids) ==
    IF ids = <<>> THEN e
    ELSE EngineHolding(add_checkpoint(e, Checkpoint_new(Head(ids), PackedSnapshot_new(Now))).engine,
                       Tail(ids))

NextOnlyInit ==
    /\ files = <<>> /\ cache = <<>> /\ chain = <<>>
    /\ last = NoCall /\ hist = [fresh |-> TRUE, failed |-> FALSE]
    /\ buf = <<>> /\ wr = NoWrite /\ rd = NoRead
    /\ travel = TimeTravel_new /\ timed = NoTravel
    /\ world = NoWorld /\ packed = NoPacked
    /\ writing = NoWriting /\ reading = NoReading
    /\ \E enabled \in BOOLEAN, n \in 1..MaxReplay :
          \E ids \in [1..n -> Ids], index \in 0..(n - 1) :
              engine = seek(EngineHolding(with_loop(ReplayEngine_new, enabled), ids),
                            index).engine
    /\ played = NoPlay

\* Nothing but next() is called, and it is called for ever.
SpecNextOnly == NextOnlyInit /\ [][StepNext]_vars /\ WF_vars(StepNext)

(***************************************************************************)
(* The TimeTravel driven as a state machine, from TimeTravel::new()        *)
(***************************************************************************)
MaxTime == 3        \* the times given to the calls are 0..MaxTime and NaN
MaxSamples == 3     \* most samples recorded

TravelTimes == {F64(v) : v \in 0..MaxTime}
TravelInputs == TravelTimes \cup {NaN}

\* Two snapshots that differ, to tell samples of one time apart.
TravelSnapshots == { [PackedSnapshot_new(Now) EXCEPT !.archetypes = a] : a \in {0, 1} }

TravelInit ==
    /\ ManagerIdle
    /\ buf = <<>> /\ wr = NoWrite /\ rd = NoRead

\* The TimeTravel after a call, and the record of the call.  A panic unwinds
\* the caller: no call follows it.
TravelBecomes(op, arg, o) ==
    /\ timed.res # "Panic"
    /\ travel' = o.travel
    /\ timed' = [ op |-> op, arg |-> arg, res |-> o.res, ret |-> o.ret,
                  nan |-> timed.nan \/ (op = "record" /\ arg.nan) ]
    /\ UNCHANGED <<files, cache, chain, last, hist, buf, wr, rd, engine, played,
                   world, packed, writing, reading>>

Record ==
    /\ TimeTravel_len(travel) < MaxSamples
    /\ \E time \in TravelInputs, snapshot \in TravelSnapshots :
          TravelBecomes("record", time, record(travel, time, snapshot))

SeekToTime ==
    \E target_time \in TravelInputs :
        TravelBecomes("seek_to_time", target_time, seek_to_time(travel, target_time))

GetSnapshotAtTime ==
    \E time \in TravelInputs :
        TravelBecomes("get_snapshot_at_time", time,
                      Travelled(travel, "Ok", get_snapshot_at_time(travel, time)))

GetCurrentSnapshot ==
    TravelBecomes("get_current_snapshot", travel.current_time,
                  Travelled(travel, "Ok", get_current_snapshot(travel)))

ForkAtTime ==
    \E time \in TravelInputs :
        TravelBecomes("fork_at_time", time,
                      Travelled(travel, "Ok", fork_at_time(travel, time)))

PruneBefore ==
    \E time \in TravelInputs :
        TravelBecomes("prune_before", time, prune_before(travel, time))

PruneAfter ==
    \E time \in TravelInputs :
        TravelBecomes("prune_after", time, prune_after(travel, time))

ClearTravel == TravelBecomes("clear", F64(0), TimeTravel_clear(travel))

TravelNext ==
    \/ Record
    \/ SeekToTime
    \/ GetSnapshotAtTime
    \/ GetCurrentSnapshot
    \/ ForkAtTime
    \/ PruneBefore
    \/ PruneAfter
    \/ ClearTravel

SpecTimeTravel == TravelInit /\ [][TravelNext]_vars

(***************************************************************************)
(* Properties of the CheckpointManager (checked under Spec)                *)
(***************************************************************************)
Created == last.op = "create" /\ last.res = "Ok"

\* C1: when store.save fails inside create_checkpoint, the call returns the
\* error of save and the chain and the cache are what they were before it.
C1_FailedCreateKeepsChainAndCache ==
    [][ (last'.op = "create" /\ last'.res # "Ok") =>
            /\ last'.res \in {"Io", "Serialization"}
            /\ chain' = chain
            /\ cache' = cache ]_vars

\* A create failed after the snapshot file was touched, on a manager that
\* already held a chain.
C1_Witness ==
    /\ last.op = "create" /\ last.res = "Io"
    /\ chain # <<>>
    /\ last.id \notin Range(chain)
    /\ exists(files, snapshot_path(last.id))

\* C2: the checkpoint a successful create_checkpoint(id, _) caches has the
\* tail of the chain before the call as its parent, None exactly when that
\* chain was empty; afterwards id is the tail and the latest checkpoint.
C2_ParentIsPreviousTail ==
    [][ (last'.op = "create" /\ last'.res = "Ok") =>
            LET id == last'.id IN
            /\ id \in DOMAIN cache'
            /\ cache'[id].parent_id =
                  (IF chain = <<>> THEN None ELSE Some(chain[Len(chain)]))
            /\ (cache'[id].parent_id = None) <=> (chain = <<>>)
            /\ chain' = Append(chain, id)
            /\ get_latest_checkpoint([chain |-> chain']) = Some(id) ]_vars

C2_Witness ==
    /\ Created
    /\ Len(chain) = 3
    /\ chain[1] # chain[2]
    /\ cache[last.id].parent_id = Some(chain[2])

\* C3 (as claimed): a successful prune_old_checkpoints(keep_count) on a chain
\* of length n leaves the last min(n, keep_count) ids in their order, removes
\* the older ids from store, cache and chain, and keeps the latest checkpoint
\* when keep_count >= 1.
C3_PruneKeepsNewest ==
    [][ (last'.op = "prune" /\ last'.res = "Ok") =>
            LET n == Len(chain)
                kept == Min(n, last'.keep)
            IN
            /\ chain' = Slice(chain, n - kept, n)
            /\ \A i \in 1..(n - kept) :
                  /\ ~exists(files', snapshot_path(chain[i]))
                  /\ chain[i] \notin DOMAIN cache'
            /\ last'.keep >= 1 =>
                  get_latest_checkpoint([chain |-> chain'])
                      = get_latest_checkpoint([chain |-> chain]) ]_vars

\* C4 (as claimed): over a directory that was empty at new(), as long as no
\* store call has failed, list_checkpoints() returns the ids of the chain.
C4_ListingIsChain ==
    (hist.fresh /\ ~hist.failed) =>
        list_checkpoints(Manager, "ok").ret = Range(chain)

\* C5 (as claimed): after a successful clear_all_checkpoints() the chain is
\* empty and the cache holds no checkpoint.
C5_ClearEmptiesManager ==
    (last.op = "clear" /\ last.res = "Ok") =>
        (chain = <<>> /\ DOMAIN cache = {})

\* C6 (as claimed): a checkpoint returned by load_checkpoint has no parent.
C6_LoadedParentIsNone ==
    (last.op = "load" /\ last.res = "Ok") => last.ret[1].parent_id = None

\* C6 (amended): a checkpoint that load_checkpoint reads from the store (id
\* was not cached) has parent_id = None; a cached id returns the cached
\* checkpoint, with the parent_id it was cached with.
C6_StoreLoadedParentIsNone ==
    (last.op = "load" /\ last.res = "Ok") =>
        IF last.hit THEN last.ret = Some(cache[last.id])
        ELSE last.ret[1].parent_id = None

\* A checkpoint was read from the store while the manager held a chain.
C6_Witness ==
    /\ last.op = "load" /\ last.res = "Ok" /\ ~last.hit
    /\ chain # <<>>

\* C7: load_checkpoint(id) changes neither chain nor store; a cached id is
\* returned from the cache, which stays as it is, whatever the store would
\* do; a miss adds exactly the entry id when the store load succeeds and
\* nothing when it fails.
C7_LoadFrame ==
    [][ last'.op = "load" =>
            LET id == last'.id IN
            /\ chain' = chain
            /\ files' = files
            /\ IF id \in DOMAIN cache
               THEN /\ last'.res = "Ok"
                    /\ last'.ret = Some(cache[id])
                    /\ cache' = cache
               ELSE IF last'.res = "Ok"
               THEN /\ DOMAIN cache' = (DOMAIN cache) \cup {id}
                    /\ \A x \in DOMAIN cache : cache'[x] = cache[x]
                    /\ last'.ret = Some(cache'[id])
               ELSE /\ cache' = cache
                    /\ last'.ret = None ]_vars

\* A store load added a second entry to the cache.
C7_Witness ==
    /\ last.op = "load" /\ last.res = "Ok" /\ ~last.hit
    /\ Cardinality(DOMAIN cache) = 2

\* C8: a successful delete_checkpoint(id) leaves id out of the store's
\* listing, of the cache and of the chain, and every other id with its
\* files, its cache entry and its place in the chain; a failed one leaves
\* cache and chain as they were.
C8_DeleteFrame ==
    [][ last'.op = "delete" =>
            LET id == last'.id
                others == (DOMAIN files) \ {snapshot_path(id), metadata_path(id)}
                Keep(x) == x # id
            IN
            IF last'.res = "Ok"
            THEN /\ id \notin list_checkpoints([files |-> files', cache |-> cache',
                                                chain |-> chain'], "ok").ret
                 /\ id \notin DOMAIN cache'
                 /\ id \notin Range(chain')
                 /\ \A n \in others : exists(files', n) /\ files'[n] = files[n]
                 /\ \A x \in (DOMAIN cache) \ {id} :
                       x \in DOMAIN cache' /\ cache'[x] = cache[x]
                 /\ chain' = SelectSeq(chain, Keep)
            ELSE /\ cache' = cache
                 /\ chain' = chain ]_vars

\* A delete took an id out of a chain and a cache that held another one.
C8_Witness ==
    /\ last.op = "delete" /\ last.res = "Ok"
    /\ chain # <<>>
    /\ DOMAIN cache # {}
    /\ DOMAIN files # {}

(***************************************************************************)
(* Properties of the container codec (checked under SpecCodec)             *)
(***************************************************************************)
\* The container the writer put out, as it is now.
Container == IF wr.path = None THEN buf ELSE files[wr.path[1]]

StageOrder ==
    << "open", "header", "magic", "version", "bounds", "checksum",
       "decrypt", "decompress", "deserialize" >>
StageIndex(s) == CHOOSE i \in 1..Len(StageOrder) : StageOrder[i] = s
InStageOrder(stages) ==
    /\ \A i \in 1..Len(stages) : stages[i] \in Range(StageOrder)
    /\ \A i, j \in 1..Len(stages) :
          i < j => StageIndex(stages[i]) < StageIndex(stages[j])

\* The error the earliest defective stage of a container owes, by the
\* defects of its bytes; "later" when header, bounds and checksum are sound.
EarliestDefect(bytes) ==
    IF ~HeaderWellFormed("bincode", bytes) THEN <<"header", "Bincode">>
    ELSE LET h == HeaderOf(bytes) IN
         IF h.magic # MAGIC_NUMBER THEN <<"magic", "InvalidFormat">>
         ELSE IF h.version # FORMAT_VERSION THEN <<"version", "VersionMismatch">>
         ELSE IF h.data_offset + h.data_size > Len(bytes)
         THEN <<"bounds", "InvalidFormat">>
         ELSE IF compute_checksum(Slice(bytes, h.data_offset,
                                        h.data_offset + h.data_size)) # h.checksum
         THEN <<"checksum", "ChecksumMismatch">>
         ELSE <<"later", "later">>

\* C9 (as claimed): a read runs its stages in the order magic, version,
\* bounds, checksum, decryption, decompression, deserialization, and a
\* container with defects returns the error of its earliest defective stage,
\* which is the last stage the read ran.
C9_EarliestStageFails ==
    rd.done =>
        LET r == rd.result
            ran == r.stages[Len(r.stages)]
        IN
        /\ r.stages # <<>>
        /\ InStageOrder(r.stages)
        /\ r.res # "Panic"
        /\ (r.res = "Ok") <=> (ran = "deserialize" /\ r.snapshot # None)
        /\ (r.res = "Io") <=> (ran = "open")
        /\ ran # "open" =>
              LET d == EarliestDefect(Container) IN
              IF d[1] = "later"
              THEN ran \in {"decrypt", "decompress", "deserialize"}
              ELSE ran = d[1] /\ r.res = d[2]

\* C10: the header at the front of a container the writer emitted has
\* data_offset = its own encoded length, data_size = the rest of the
\* container, checksum = SHA-256 of that rest, the compression family of the
\* writer's codec, and encrypted set exactly when the writer has a key.
C10_HeaderFramesPayload ==
    (wr.done /\ wr.res = "Ok" /\ wr.corrupted = 0) =>
        /\ HeaderWellFormed("bincode", Container)
        /\ LET B == Container
               h == HeaderOf(B)
           IN
           /\ h.data_offset = Len(serialize_header("bincode", h))
           /\ h.data_size = Len(B) - h.data_offset
           /\ h.checksum = compute_checksum(Slice(B, h.data_offset, Len(B)))
           /\ h.compression = CompressionType_from(wr.writer.compression)
           /\ h.encrypted = (wr.writer.encryption_key # None)

\* An encrypted, compressed container was written to a file.
C10_Witness ==
    /\ wr.done /\ wr.res = "Ok" /\ wr.corrupted = 0
    /\ wr.path # None
    /\ wr.writer.encryption_key # None
    /\ wr.writer.compression.family = "Lz4"
    /\ Len(Container) > Len(HeaderFields)

(***************************************************************************)
(* Round-trip properties (checked under SpecRoundTrip)                     *)
(***************************************************************************)
\* A container that was written in full and has been read without a fault of
\* the file system.
ReadBack ==
    /\ wr.done /\ wr.res = "Ok" /\ rd.done
    /\ rd.result.stages # <<"open">>

\* The encoded size of the body of a snapshot.
BodySize(snapshot) == Len(serialize_snapshot(snapshot).bytes)

\* C11 (as claimed): without encryption, a snapshot of any size written with
\* any codec reads back equal to itself.
C11_RoundTripAnySize ==
    (ReadBack /\ wr.writer.encryption_key = None) =>
        /\ rd.result.res = "Ok"
        /\ rd.result.snapshot = Some(wr.snapshot)

\* C11 (amended): without encryption, a snapshot written with None or Lz4,
\* or with Zstd and a body within the capacity given to the zstd
\* decompressor, reads back equal to itself; a Zstd container with a larger
\* body fails to read with Decompression and returns no snapshot.
C11_RoundTripWithinCapacity ==
    (ReadBack /\ wr.writer.encryption_key = None) =>
        IF wr.writer.compression.family = "Zstd"
              /\ BodySize(wr.snapshot) > ZstdCapacity
        THEN rd.result.res = "Decompression" /\ rd.result.snapshot = None
        ELSE rd.result.res = "Ok" /\ rd.result.snapshot = Some(wr.snapshot)

\* A MessagePack snapshot with archetypes came back through zstd level 19.
C11_Witness ==
    /\ ReadBack /\ wr.writer.encryption_key = None
    /\ wr.writer.compression = zstd_best
    /\ wr.snapshot.header.format = "MessagePack"
    /\ wr.snapshot.archetypes = 1
    /\ rd.result.snapshot = Some(wr.snapshot)

\* C12 (as claimed): a container written with key K reads back equal to the
\* snapshot with a reader holding K, whatever the snapshot, and fails with
\* Decryption, returning nothing, with a reader holding another key.
C12_EncryptedRoundTrip ==
    (ReadBack /\ wr.writer.encryption_key # None
              /\ rd.reader.encryption_key # None) =>
        IF rd.reader.encryption_key = wr.writer.encryption_key
        THEN rd.result.res = "Ok" /\ rd.result.snapshot = Some(wr.snapshot)
        ELSE rd.result.res = "Decryption" /\ rd.result.snapshot = None

\* C12 (amended): with a reader holding another key the read fails with
\* Decryption and returns nothing; with a reader holding K the snapshot comes
\* back equal, except that a Zstd container whose body is above the capacity
\* of the zstd decompressor fails with Decompression.
C12_EncryptedRoundTripWithinCapacity ==
    (ReadBack /\ wr.writer.encryption_key # None
              /\ rd.reader.encryption_key # None) =>
        IF rd.reader.encryption_key # wr.writer.encryption_key
        THEN rd.result.res = "Decryption" /\ rd.result.snapshot = None
        ELSE IF wr.writer.compression.family = "Zstd"
                   /\ BodySize(wr.snapshot) > ZstdCapacity
        THEN rd.result.res = "Decompression" /\ rd.result.snapshot = None
        ELSE rd.result.res = "Ok" /\ rd.result.snapshot = Some(wr.snapshot)

\* A container encrypted with K1 was refused by a reader holding K2.
C12_Witness ==
    /\ ReadBack
    /\ wr.writer.encryption_key = Some("K1")
    /\ rd.reader.encryption_key = Some("K2")
    /\ rd.result.res = "Decryption"
    /\ "decrypt" \in Range(rd.result.stages)

(***************************************************************************)
(* Properties of damaged containers (checked under SpecCodec)              *)
(***************************************************************************)
\* The container as write_to_bytes emitted it, before any damage.
Emitted == write_to_bytes(wr.writer, wr.snapshot, 1).bytes

\* The container in buf is the emitted one with payload positions replaced:
\* the header cells are intact and some cell at or after data_offset differs.
PayloadReplaced ==
    /\ wr.done /\ wr.res = "Ok" /\ wr.path = None
    /\ Len(buf) = Len(Emitted)
    /\ \A p \in 1..Len(HeaderFields) : buf[p] = Emitted[p]
    /\ \E p \in (HeaderOf(Emitted).data_offset + 1)..Len(buf) : buf[p] # Emitted[p]

\* C13: replacing a byte at a position from data_offset on in an emitted
\* container makes read_from_bytes fail with ChecksumMismatch, and no
\* snapshot is returned.
C13_PayloadDamageIsChecksumMismatch ==
    (rd.done /\ PayloadReplaced) =>
        /\ rd.result.res = "ChecksumMismatch"
        /\ rd.result.snapshot = None

\* An encrypted container with one damaged payload position was read by a
\* reader that holds the key.
C13_Witness ==
    /\ rd.done /\ PayloadReplaced
    /\ wr.corrupted = 1
    /\ wr.writer.encryption_key = Some("K1")
    /\ rd.reader.encryption_key = Some("K1")
    /\ rd.result.stages[Len(rd.result.stages)] = "checksum"

\* The number a decimal text stands for.
RECURSIVE DecimalValue(_)
DecimalValue(text) ==
    IF text = <<>> THEN 0
    ELSE 10 * DecimalValue(Slice(text, 0, Len(text) - 1)) + text[Len(text)]

IsDecimal(text) ==
    /\ text # <<>>
    /\ \A i \in 1..Len(text) : text[i] \in 0..9
    /\ Len(text) > 1 => text[1] # 0

\* C14: validate() returns InvalidFormat when the magic differs, whatever the
\* version; otherwise VersionMismatch with expected "1" and the decimal text
\* of header.version as actual when the version is not 1; otherwise Ok.  A
\* read of a container with a header that fails validate fails with exactly
\* that error.
C14_ValidateDecides ==
    (rd.done /\ rd.result.stages[1] # "open"
             /\ HeaderWellFormed("bincode", Container)) =>
        LET h == HeaderOf(Container)
            v == validate(h)
        IN
        /\ h.magic # MAGIC_NUMBER => v.kind = "InvalidFormat"
        /\ (h.magic = MAGIC_NUMBER /\ h.version # 1) =>
              /\ v.kind = "VersionMismatch"
              /\ v.expected = <<1>>
              /\ IsDecimal(v.actual) /\ DecimalValue(v.actual) = h.version
        /\ (h.magic = MAGIC_NUMBER /\ h.version = 1) => v = NoError
        /\ v.kind # "Ok" =>
              /\ rd.result.res = v.kind
              /\ rd.result.error = v
              /\ rd.result.snapshot = None

\* A container whose magic and version are both wrong was read.
C14_Witness ==
    /\ rd.done /\ wr.path = None
    /\ HeaderWellFormed("bincode", buf)
    /\ HeaderOf(buf).magic # MAGIC_NUMBER
    /\ HeaderOf(buf).version = 12
    /\ rd.result.res = "InvalidFormat"

\* C15 (as claimed): when the header parses and validates and data_offset +
\* data_size, as integers, is beyond the end of the buffer, the read returns
\* InvalidFormat from the bounds stage: it does not panic and does not reach
\* the checksum stage.
C15_OutOfBoundsIsInvalidFormat ==
    (rd.done /\ rd.result.stages[1] # "open"
             /\ HeaderWellFormed("bincode", Container)
             /\ validate(HeaderOf(Container)) = NoError
             /\ HeaderOf(Container).data_offset + HeaderOf(Container).data_size
                   > Len(Container)) =>
        /\ rd.result.res = "InvalidFormat"
        /\ rd.result.stages[Len(rd.result.stages)] = "bounds"

\* The header parses and validates, the payload is in bounds and its
\* checksum matches.
SoundFrame(bytes) == EarliestDefect(bytes)[1] = "later"

\* C16: a container with a sound frame and encrypted = true read without a
\* key fails with Decryption; one with encrypted = false reads to the same
\* result with every reader, with or without a key.
C16_KeyNeededIffEncrypted ==
    (rd.done /\ wr.path = None /\ SoundFrame(buf)) =>
        IF HeaderOf(buf).encrypted
        THEN rd.reader.encryption_key = None =>
                (rd.result.res = "Decryption" /\ rd.result.snapshot = None)
        ELSE \A reader \in Readers :
                read_from_bytes(reader, buf, rd.build) = rd.result

\* An encrypted container, as emitted, was read without a key.
C16_Witness ==
    /\ rd.done /\ wr.path = None /\ wr.corrupted = 0
    /\ wr.writer.encryption_key # None
    /\ SoundFrame(buf) /\ HeaderOf(buf).encrypted
    /\ rd.reader.encryption_key = None
    /\ rd.result.res = "Decryption"

(***************************************************************************)
(* Properties of the ReplayEngine (checked under SpecReplay)               *)
(***************************************************************************)
\* C17: without loop_replay, next() at the last index or on an empty engine
\* and previous() at index 0 return None and leave current_index as it is;
\* in every other state next() adds one to current_index, previous() takes
\* one off, and the checkpoint at the new index is returned.
C17_StepsWithoutLoop ==
    [][ ~engine.loop_replay =>
          /\ played'.op = "next" =>
                IF is_empty(engine) \/ get_index(engine) = len(engine) - 1
                THEN played'.ret = None /\ engine' = engine
                ELSE /\ get_index(engine') = get_index(engine) + 1
                     /\ engine'.checkpoints = engine.checkpoints
                     /\ played'.ret =
                           Some(engine.checkpoints[get_index(engine) + 2])
          /\ played'.op = "previous" =>
                IF get_index(engine) = 0
                THEN played'.ret = None /\ engine' = engine
                ELSE /\ get_index(engine') = get_index(engine) - 1
                     /\ engine'.checkpoints = engine.checkpoints
                     /\ played'.ret =
                           Some(engine.checkpoints[get_index(engine)]) ]_vars

\* next() was refused at the end of a non-looping engine of three.
C17_Witness ==
    /\ ~engine.loop_replay
    /\ played.op = "next" /\ played.ret = None
    /\ len(engine) = 3 /\ get_index(engine) = 2

\* C18: with loop_replay on a non-empty engine, next() at the last index
\* goes to index 0 and returns the first checkpoint, previous() at index 0
\* goes to len - 1 and returns the last; on an empty engine both return None
\* and current_index stays 0.
C18_StepsWrapWithLoop ==
    [][ (engine.loop_replay /\ played'.op \in {"next", "previous"}) =>
          IF is_empty(engine)
          THEN played'.ret = None /\ get_index(engine') = 0 /\ engine' = engine
          ELSE /\ (played'.op = "next" /\ get_index(engine) = len(engine) - 1) =>
                     /\ get_index(engine') = 0
                     /\ played'.ret = Some(Head(engine.checkpoints))
                     /\ engine'.checkpoints = engine.checkpoints
               /\ (played'.op = "previous" /\ get_index(engine) = 0) =>
                     /\ get_index(engine') = len(engine) - 1
                     /\ played'.ret = Some(engine.checkpoints[len(engine)])
                     /\ engine'.checkpoints = engine.checkpoints ]_vars

\* previous() wrapped from index 0 to the end of a looping engine of three
\* (a step back from a higher index ends below len - 1).
C18_Witness ==
    /\ engine.loop_replay
    /\ played.op = "previous"
    /\ len(engine) = 3 /\ get_index(engine) = 2
    /\ played.ret = Some(engine.checkpoints[3])

\* C19: seek(i) with i < len sets current_index to i and returns the
\* checkpoint at position i; with i >= len it returns InvalidCheckpoint and
\* leaves current_index and the checkpoints as they were.
C19_SeekInRangeOnly ==
    [][ played'.op = "seek" =>
          LET i == played'.arg IN
          IF i < len(engine)
          THEN /\ played'.res = "Ok"
               /\ get_index(engine') = i
               /\ played'.ret = Some(engine.checkpoints[i + 1])
               /\ engine'.checkpoints = engine.checkpoints
          ELSE /\ played'.res = "InvalidCheckpoint"
               /\ played'.ret = None
               /\ engine' = engine ]_vars

\* A seek beyond the end was refused while the cursor stood inside.
C19_Witness ==
    /\ played.op = "seek" /\ played.res = "InvalidCheckpoint"
    /\ played.arg >= len(engine)
    /\ len(engine) >= 2 /\ get_index(engine) = 1

\* Every id of a manager's chain is cached (an invariant of Spec and of
\* SpecReplay), so the loads of load_from_manager are cache hits.
ChainIsCached == Range(chain) \subseteq DOMAIN cache

\* C20: after any sequence of engine calls, current_index < len when the
\* engine is non-empty and current_index = 0 when it is empty, so that
\* current() is None only on an empty engine.
C20_IndexInRange ==
    /\ ~is_empty(engine) => get_index(engine) < len(engine)
    /\ is_empty(engine) => get_index(engine) = 0
    /\ (current(engine) = None) <=> is_empty(engine)

\* The engine took the two checkpoints of a manager's chain.
C20_Witness ==
    /\ played.op = "load_from_manager" /\ played.res = "Ok"
    /\ len(engine) = 2 /\ get_index(engine) = 0
    /\ [i \in 1..2 |-> engine.checkpoints[i].id] = chain

\* The ids of the engine's checkpoints, in order.
EngineIds(e) == [i \in 1..Len(e.checkpoints) |-> e.checkpoints[i].id]

\* C21: a successful load_from_manager leaves in the engine exactly the
\* checkpoints of the manager's chain, in chain order and nothing else, with
\* current_index 0, and it leaves the manager's chain as it was.
C21_LoadTakesTheChain ==
    [][ (played'.op = "load_from_manager" /\ played'.res = "Ok") =>
          /\ EngineIds(engine') = chain
          /\ engine'.checkpoints = [i \in 1..Len(chain) |-> cache'[chain[i]]]
          /\ get_index(engine') = 0
          /\ chain' = chain
          /\ engine'.loop_replay = engine.loop_replay ]_vars

\* A looping engine took a chain of two checkpoints, first created first.
C21_Witness ==
    /\ played.op = "load_from_manager" /\ played.res = "Ok"
    /\ engine.loop_replay
    /\ chain = << <<"a">>, <<>> >>
    /\ EngineIds(engine) = chain
    /\ engine.checkpoints[2].parent_id = Some(<<"a">>)

(***************************************************************************)
(* Properties of the TimeTravel                                            *)
(***************************************************************************)
\* The stored times, in order.
Times(tt) == [i \in 1..Len(tt.snapshots) |-> tt.snapshots[i][1]]

\* No NaN has been recorded and no call has panicked.
NoNaNSoFar == ~timed.nan /\ timed.res # "Panic"

\* C22: after any sequence of record (no NaN), prune_before, prune_after
\* and clear, the stored times are non-decreasing, get_earliest_time is
\* their minimum and get_latest_time their maximum, and both are None when
\* nothing is stored.
C22_TimesSorted ==
    NoNaNSoFar =>
      LET t == Times(travel) IN
      /\ \A i, j \in 1..Len(t) : i < j => le(t[i], t[j])
      /\ TimeTravel_is_empty(travel) =>
            get_earliest_time(travel) = None /\ get_latest_time(travel) = None
      /\ ~TimeTravel_is_empty(travel) =>
            /\ \E i \in 1..Len(t) :
                  /\ get_earliest_time(travel) = Some(t[i])
                  /\ \A j \in 1..Len(t) : le(t[i], t[j])
            /\ \E i \in 1..Len(t) :
                  /\ get_latest_time(travel) = Some(t[i])
                  /\ \A j \in 1..Len(t) : ge(t[i], t[j])

\* A time was recorded that is earlier than one stored before and equal to
\* another.
C22_Witness ==
    /\ NoNaNSoFar
    /\ timed.op = "record" /\ timed.arg = F64(1)
    /\ Times(travel) = <<F64(1), F64(1), F64(3)>>
    /\ travel.snapshots[1][2] # travel.snapshots[2][2]

\* L of the claims: the number of stored samples whose time is < target.
CountBefore(tt, target) ==
    Cardinality({i \in 1..Len(tt.snapshots) : lt(tt.snapshots[i][1], target)})

\* |times[k] - target|, k counted from 0.
Distance(tt, k, target) == abs(sub(tt.snapshots[k + 1][1], target))

\* C23 as stated: on a non-empty sorted index find_snapshot_at_time(target)
\* is 0 if L = 0, len-1 if L = len, and otherwise L-1 if
\* |times[L-1]-target| <= |times[L]-target| else L (a tie goes to the
\* earlier sample); on an empty index it is None.
C23_NearestTieEarlier ==
    NoNaNSoFar =>
      \A target \in TravelInputs :
        find_snapshot_at_time(travel, target) =
          IF TimeTravel_is_empty(travel) THEN None
          ELSE LET L == CountBefore(travel, target) IN
               Some(IF L = 0 THEN 0
                    ELSE IF L = TimeTravel_len(travel) THEN L - 1
                    ELSE IF le(Distance(travel, L - 1, target), Distance(travel, L, target))
                         THEN L - 1 ELSE L)

\* C23, amended: the same with L-1 only if |times[L-1]-target| is strictly
\* less than |times[L]-target|, so that a tie goes to the later sample.
C23_NearestTieLater ==
    NoNaNSoFar =>
      \A target \in TravelInputs :
        find_snapshot_at_time(travel, target) =
          IF TimeTravel_is_empty(travel) THEN None
          ELSE LET L == CountBefore(travel, target) IN
               Some(IF L = 0 THEN 0
                    ELSE IF L = TimeTravel_len(travel) THEN L - 1
                    ELSE IF lt(Distance(travel, L - 1, target), Distance(travel, L, target))
                         THEN L - 1 ELSE L)

\* Time 1 was sought between samples at 0 and 2: the index found is 1.
C23_Witness ==
    /\ NoNaNSoFar
    /\ Times(travel) = <<F64(0), F64(2), F64(2)>>
    /\ timed.op = "seek_to_time" /\ timed.arg = F64(1)
    /\ CountBefore(travel, F64(1)) = 1
    /\ find_snapshot_at_time(travel, F64(1)) = Some(1)

\* C24: seek_to_time(target) selects a sample at minimal distance from the
\* target, and when the target is equidistant from the two samples around
\* it, the later one.
C24_SeekNearestTieLater ==
    [][ ( /\ timed'.op = "seek_to_time" /\ ~timed'.arg.nan
          /\ NoNaNSoFar /\ ~TimeTravel_is_empty(travel) ) =>
          LET t == Times(travel)
              target == timed'.arg
          IN
          /\ \E i \in 1..Len(t) :
                /\ travel.snapshots[i] = <<get_current_time(travel'), timed'.ret[1]>>
                /\ \A j \in 1..Len(t) :
                      le(abs(sub(t[i], target)), abs(sub(t[j], target)))
          /\ \A k \in 1..(Len(t) - 1) :
                ( /\ lt(t[k], target) /\ lt(target, t[k + 1])
                  /\ sub(target, t[k]) = sub(t[k + 1], target) ) =>
                get_current_time(travel') = t[k + 1] ]_vars

\* Time 2 was sought between samples at 1 and 3: the sample at 3 was taken.
C24_Witness ==
    /\ NoNaNSoFar
    /\ timed.op = "seek_to_time" /\ timed.arg = F64(2)
    /\ Times(travel) = <<F64(1), F64(3)>>
    /\ get_current_time(travel) = F64(3)
    /\ timed.ret = Some(travel.snapshots[2][2])

\* C25: seek_to_time(t) on a non-empty index sets current_time to the time
\* of the sample whose snapshot it returns and leaves the samples as they
\* were; on an empty index it returns None and changes nothing.
\* get_snapshot_at_time(t) and fork_at_time(t) return the snapshot
\* seek_to_time(t) would and change neither the samples nor current_time.
C25_SeekFrame ==
    [][ /\ timed'.op = "seek_to_time" =>
           /\ travel'.snapshots = travel.snapshots
           /\ IF TimeTravel_is_empty(travel)
              THEN timed'.ret = None /\ travel' = travel
              ELSE \E i \in 1..TimeTravel_len(travel) :
                     /\ find_snapshot_at_time(travel, timed'.arg) = Some(i - 1)
                     /\ timed'.ret = Some(travel.snapshots[i][2])
                     /\ get_current_time(travel') = travel.snapshots[i][1]
        /\ timed'.op \in {"get_snapshot_at_time", "fork_at_time"} =>
           /\ travel' = travel
           /\ timed'.ret = seek_to_time(travel, timed'.arg).ret ]_vars

\* fork_at_time(2) returned the snapshot of the sample at 3, and current_time
\* is still the 0 of the last record.
C25_Witness ==
    /\ timed.op = "fork_at_time" /\ timed.arg = F64(2)
    /\ Times(travel) = <<F64(0), F64(3)>>
    /\ travel.snapshots[1][2] # travel.snapshots[2][2]
    /\ timed.ret = Some(travel.snapshots[2][2])
    /\ get_current_time(travel) = F64(0)

\* The elements of s at the positions K, in their order in s.
Kept(s, K) ==
    [n \in 1..Cardinality(K) |->
        s[CHOOSE i \in K : Cardinality({j \in K : j <= i}) = n]]

\* C26: prune_before(t) leaves exactly the samples stored before with
\* time >= t, prune_after(t) exactly those with time <= t, in the order
\* they had; a sample with time t survives both.
C26_PruneKeepsInclusive ==
    [][ LET s == travel.snapshots
            t == timed'.arg
        IN
        /\ timed'.op = "prune_before" =>
              travel'.snapshots = Kept(s, {i \in 1..Len(s) : ge(s[i][1], t)})
        /\ timed'.op = "prune_after" =>
              travel'.snapshots = Kept(s, {i \in 1..Len(s) : le(s[i][1], t)})
        /\ timed'.op \in {"prune_before", "prune_after"} =>
              /\ \A i \in 1..Len(s) :
                    s[i][1] = t /\ ~t.nan => s[i] \in Range(travel'.snapshots)
              /\ Range(travel'.snapshots) \subseteq Range(s) ]_vars

\* prune_before(2) left two samples whose time is 2, and nothing earlier.
C26_Witness ==
    /\ timed.op = "prune_before" /\ timed.arg = F64(2)
    /\ Times(travel) = <<F64(2), F64(2)>>
    /\ travel.snapshots[1][2] # travel.snapshots[2][2]
    /\ get_current_time(travel) = F64(1)

\* C27: record with a NaN time is rejected with InvalidCheckpoint: nothing
\* is stored, the samples and current_time stay as they were, and neither
\* this call nor a later record panics.
C27_NaNIsRejected ==
    [][ /\ (timed'.op = "record" /\ timed'.arg.nan) =>
              timed'.res = "InvalidCheckpoint" /\ travel' = travel
        /\ timed'.op = "record" => timed'.res # "Panic" ]_vars

(***************************************************************************)
(* Properties of the SnapshotStore                                         *)
(***************************************************************************)
\* o is what load(id) returns on the directory, r what the reader returns
\* for <id>.tx2pack.
LoadDecides(id, o, r) ==
    /\ (o.res = "SnapshotNotFound") <=> ~exists(files, snapshot_path(id))
    /\ ( /\ exists(files, snapshot_path(id))
         /\ ~exists(files, metadata_path(id))
         /\ r.res = "Ok" ) =>
            /\ o.res = "Ok"
            /\ o.snapshot = r.snapshot
            /\ o.metadata = Some(SnapshotMetadata_new(id))
            /\ o.metadata[1].id = id

\* C28: load(id) fails with SnapshotNotFound exactly when <id>.tx2pack is
\* absent, whether or not the sidecar exists; when the snapshot file is
\* present and readable and <id>.meta.json is absent, load succeeds with
\* the default metadata of id.
C28_LoadNotFoundIffAbsent ==
    \A id \in Ids, build \in Builds, io \in LoadFaults :
        LoadDecides(id, load(files, id, SnapshotReader_new, build, io),
                    read_from_file(files, SnapshotReader_new, snapshot_path(id), build,
                                   IF io = "read" THEN io ELSE "ok"))

\* The manager loaded from the store a snapshot that has no sidecar.
C28_Witness ==
    /\ last.op = "load" /\ ~last.hit /\ last.res = "Ok"
    /\ exists(files, snapshot_path(last.id))
    /\ ~exists(files, metadata_path(last.id))
    /\ last.ret[1].metadata = SnapshotMetadata_new(last.id)

\* d is what delete(id) leaves of the directory, again what a second
\* delete(id) leaves of that.
DeleteDecides(id, d, again) ==
    /\ d.res = "Ok"
    /\ ~exists(d.files, snapshot_path(id)) /\ ~exists(d.files, metadata_path(id))
    /\ id \notin list(d.files, "ok").ids
    /\ \A build \in Builds, io \in LoadFaults :
          load(d.files, id, SnapshotReader_new, build, io).res = "SnapshotNotFound"
    /\ \A path \in DOMAIN files \ {snapshot_path(id), metadata_path(id)} :
          exists(d.files, path) /\ d.files[path] = files[path]
    /\ DOMAIN d.files \subseteq DOMAIN files
    /\ again.res = "Ok" /\ again.files = d.files

\* C29: when no removal fails, delete(id) succeeds whether both, one or
\* none of the two files of id exist; afterwards list() does not contain id,
\* load(id) is SnapshotNotFound, the files of other ids are as they were,
\* and a second delete(id) succeeds and changes nothing.
C29_DeleteIdempotent ==
    \A id \in Ids :
        DeleteDecides(id, delete(files, id, "ok"),
                      delete(delete(files, id, "ok").files, id, "ok"))

\* The manager deleted "a" from a directory that still holds the snapshot
\* of the other id.
C29_Witness ==
    /\ last.op = "delete" /\ last.id = <<"a">> /\ last.res = "Ok"
    /\ ~exists(files, snapshot_path(<<"a">>)) /\ ~exists(files, metadata_path(<<"a">>))
    /\ exists(files, snapshot_path(<<>>)) /\ exists(files, metadata_path(<<>>))

(***************************************************************************)
(* Properties of the error type                                            *)
(***************************************************************************)
\* The thirteen kinds of the specification's taxonomy.
Taxonomy ==
    { "Io", "Serialization", "Deserialization", "Compression", "Decompression",
      "Encryption", "Decryption", "InvalidFormat", "VersionMismatch",
      "ChecksumMismatch", "SnapshotNotFound", "InvalidCheckpoint", "Unknown" }

\* C30: every error a write or a read returns is of one of the thirteen
\* kinds of the taxonomy, also when the buffer is too short or too
\* malformed to hold a header.  (A panic returns no error.)
C30_ErrorsInTaxonomy ==
    /\ wr.res \in Taxonomy \cup {"none", "Ok"}
    /\ rd.result.res \in Taxonomy \cup {"none", "Ok", "Panic"}
    /\ rd.result.error.kind = rd.result.res

(***************************************************************************)
(* Invariants of the CheckpointManager                                     *)
(***************************************************************************)
\* o is load_checkpoint(id) on the manager, l is load_from_manager on a new
\* engine; both under a store whose reads fail when io says so.
ServedFromCache(id, o, l) ==
    /\ o = Outcome(files, cache, chain, "Ok", Some(cache[id]))
    /\ l.res = "Ok"
    /\ l.manager = Manager
    /\ l.engine.checkpoints = [i \in 1..Len(chain) |-> cache[chain[i]]]

\* C32: every id of the chain is a key of the cache, so load_checkpoint of
\* a chain id is served from the cache, and load_from_manager does not read
\* the store and does not fail, whatever the store would answer.
C32_ChainServedFromCache ==
    /\ ChainIsCached
    /\ \A id \in Range(chain), build \in Builds, io \in LoadFaults :
          ServedFromCache(id, load_checkpoint(Manager, id, build, io),
                          load_from_manager(ReplayEngine_new, Manager, build, io))

\* A checkpoint of a chain of two was loaded and found in the cache.
C32_Witness ==
    /\ last.op = "load" /\ last.hit /\ last.res = "Ok"
    /\ Len(chain) = 2 /\ last.id = chain[1]
    /\ last.ret = Some(cache[chain[1]])

\* C33: no id occurs twice in the chain, and no cached checkpoint has its
\* own id as parent_id.
C33_ChainIdsUnique ==
    /\ \A i, j \in 1..Len(chain) : chain[i] = chain[j] => i = j
    /\ \A id \in DOMAIN cache : cache[id].parent_id # Some(id)

\* C34: the parent links of the cached chain members mirror the chain: the
\* checkpoint of chain[0] has no parent, and the checkpoint of every later
\* chain member has the member before it as parent.
C34_ParentsMirrorChain ==
    \A i \in 1..Len(chain) :
        /\ chain[i] \in DOMAIN cache
        /\ cache[chain[i]].parent_id = IF i = 1 THEN None ELSE Some(chain[i - 1])

\* The same for chains without a repeated id: does C34 fail without C33?
C34_ParentsMirrorUniqueChain ==
    C33_ChainIdsUnique => C34_ParentsMirrorChain

\* What the store holds of id: load(id) through a reader of the manager,
\* with no fault.
Persisted(f, id) == load(f, id, SnapshotReader_new, "release", "ok")

\* C35: a create_checkpoint(id) that fails leaves the store as it was when
\* id had no file in it, so that list_checkpoints() does not contain id;
\* and when id was persisted before, a later load of id from the store
\* still yields the snapshot persisted before.
C35_FailedCreateKeepsStore ==
    [][ (last'.op = "create" /\ last'.res # "Ok") =>
          LET id == last'.id IN
          /\ ~exists(files, snapshot_path(id)) =>
                /\ files' = files
                /\ id \notin list(files', "ok").ids
          /\ (exists(files, snapshot_path(id)) /\ Persisted(files, id).res = "Ok") =>
                /\ Persisted(files', id).res = "Ok"
                /\ Persisted(files', id).snapshot = Persisted(files, id).snapshot ]_vars

(***************************************************************************)
(* Invariants of the TimeTravel                                            *)
(***************************************************************************)
\* C38: whenever a sample is stored, current_time is the time of a stored
\* sample and get_current_snapshot() is the snapshot of a sample recorded
\* at current_time.
C38_CurrentTimeIsStored ==
    (NoNaNSoFar /\ ~TimeTravel_is_empty(travel)) =>
        \E i \in 1..TimeTravel_len(travel) :
            /\ travel.snapshots[i][1] = get_current_time(travel)
            /\ get_current_snapshot(travel) = Some(travel.snapshots[i][2])

(***************************************************************************)
(* from_world_snapshot applied to small worlds: up to MaxEntities entities *)
(* (ids may repeat, the Vec does not forbid it), each with up to           *)
(* MaxComponents components (ids may repeat as well).                      *)
(***************************************************************************)
MaxEntities == 2
MaxComponents == 2
EntityIds == 1..MaxEntities
ComponentIds == {"Position", "Velocity"}

SeqsUpTo(S, n) == UNION { [1..k -> S] : k \in 0..n }

WorldEntities ==
    { [id |-> id, components |-> cs] :
        id \in EntityIds,
        cs \in SeqsUpTo({[id |-> c] : c \in ComponentIds}, MaxComponents) }

Worlds == { [timestamp |-> Now, entities |-> es] : es \in SeqsUpTo(WorldEntities, MaxEntities) }

PackInit ==
    /\ files = <<>> /\ cache = <<>> /\ chain = <<>>
    /\ last = NoCall /\ hist = [fresh |-> TRUE, failed |-> FALSE]
    /\ buf = <<>> /\ wr = NoWrite /\ rd = NoRead
    /\ engine = ReplayEngine_new /\ played = NoPlay
    /\ travel = TimeTravel_new /\ timed = NoTravel
    /\ writing = NoWriting /\ reading = NoReading
    /\ world \in Worlds /\ packed = NoPacked

FromWorldSnapshot ==
    /\ ~packed.done
    /\ \E order \in IterationOrders(entities_loop(<<>>, world.entities)) :
          packed' = [done |-> TRUE, snapshot |-> from_world_snapshot(world, order)]
    /\ UNCHANGED <<files, cache, chain, last, hist, buf, wr, rd, engine, played,
                   travel, timed, world, writing, reading>>

SpecPack == PackInit /\ [][FromWorldSnapshot]_vars

(***************************************************************************)
(* write_to_file and read_from_file on one path at the same time.  The     *)
(* writer creates (truncates) the file, writes the header and the payload  *)
(* with write_all, each in one or more write() calls, and syncs; the       *)
(* reader opens the file and read_to_end takes what is there from its own  *)
(* offset, in one or more read() calls, until a read finds nothing.        *)
(***************************************************************************)
ConcurrentWriters == {SnapshotWriter_new, with_compression(SnapshotWriter_new, codec_none)}

\* Two snapshots of the same encoded size that differ in two places.
ConcurrentSnapshots ==
    { [ header |-> SnapshotHeader_new(t), archetypes |-> 0, entity_metadata |-> t ] :
        t \in {0, 1} }

\* The path holds nothing, or a container some earlier call wrote in full.
ConcurrentInit ==
    /\ cache = <<>> /\ chain = <<>>
    /\ last = NoCall /\ hist = [fresh |-> TRUE, failed |-> FALSE]
    /\ buf = <<>> /\ wr = NoWrite /\ rd = NoRead
    /\ engine = ReplayEngine_new /\ played = NoPlay
    /\ travel = TimeTravel_new /\ timed = NoTravel
    /\ world = NoWorld /\ packed = NoPacked
    /\ reading = NoReading
    /\ \/ files = <<>> /\ writing = NoWriting
       \/ \E writer \in ConcurrentWriters, snapshot \in ConcurrentSnapshots :
             /\ files = write_to_file(<<>>, writer, snapshot, CodecPath, 1, "ok").files
             /\ writing = [NoWriting EXCEPT !.written = {snapshot}]

\* Lines 44-74: the bytes are prepared, then File::create(path).
FileCreate ==
    /\ writing.pc = "idle"
    /\ \E writer \in ConcurrentWriters, snapshot \in ConcurrentSnapshots :
          LET data == final_data(writer, snapshot, 1)
              final_header_bytes ==
                  serialize_header("bincode", final_header(writer, snapshot, data.bytes))
          IN writing' = [writing EXCEPT !.pc = "header",
                                        !.bytes = final_header_bytes \o data.bytes,
                                        !.header_len = Len(final_header_bytes),
                                        !.pos = 0, !.snapshot = Some(snapshot)]
    /\ files' = Put(files, CodecPath, <<>>)
    \* torn: the reader holds cells of the container that is truncated here
    /\ reading' = [reading EXCEPT !.torn = (reading.all_data # <<>>)]
    /\ UNCHANGED <<cache, chain, last, hist, buf, wr, rd, engine, played, travel, timed,
                   world, packed>>

\* One write() of n cells at the writer's offset.
WriteCells(n) ==
    /\ files' = Put(files, CodecPath, Slice(writing.bytes, 0, writing.pos + n))
    /\ UNCHANGED <<cache, chain, last, hist, buf, wr, rd, engine, played, travel, timed,
                   world, packed, reading>>

\* Line 76: file.write_all(&final_header_bytes)
WriteHeader ==
    /\ writing.pc = "header"
    /\ \E n \in 1..(writing.header_len - writing.pos) :
          /\ writing' = [writing EXCEPT
                            !.pos = @ + n,
                            !.pc = IF writing.pos + n = writing.header_len
                                   THEN "payload" ELSE "header"]
          /\ WriteCells(n)

\* Line 78: file.write_all(&final_data); with its last write() the whole
\* container is in the file.
WritePayload ==
    /\ writing.pc = "payload"
    /\ \E n \in 1..(Len(writing.bytes) - writing.pos) :
          /\ writing' = [writing EXCEPT
                            !.pos = @ + n,
                            !.pc = IF writing.pos + n = Len(writing.bytes)
                                   THEN "sync" ELSE "payload",
                            !.written = IF writing.pos + n = Len(writing.bytes)
                                        THEN @ \cup {writing.snapshot[1]} ELSE @]
          /\ WriteCells(n)

\* Line 80: file.sync_all()
SyncAll ==
    /\ writing.pc = "sync"
    /\ writing' = [writing EXCEPT !.pc = "done"]
    /\ UNCHANGED <<files, cache, chain, last, hist, buf, wr, rd, engine, played, travel,
                   timed, world, packed, reading>>

\* Line 172: File::open(path)
OpenFile ==
    /\ reading.pc = "idle"
    /\ reading' =
          IF exists(files, CodecPath)
          THEN [reading EXCEPT !.pc = "read"]
          ELSE [reading EXCEPT !.pc = "done", !.result = Result("Io", None, <<"open">>)]
    /\ UNCHANGED <<files, cache, chain, last, hist, buf, wr, rd, engine, played, travel,
                   timed, world, packed, writing>>

\* Line 175, read_to_end: one read() that finds cells past the reader's
\* offset and takes some of them.
ReadSome ==
    /\ reading.pc = "read"
    /\ \E n \in 1..(Len(files[CodecPath]) - Len(reading.all_data)) :
          reading' = [reading EXCEPT
                        !.all_data = @ \o Slice(files[CodecPath], Len(@), Len(@) + n)]
    /\ UNCHANGED <<files, cache, chain, last, hist, buf, wr, rd, engine, played, travel,
                   timed, world, packed, writing>>

\* Lines 175-210: a read() that finds nothing ends read_to_end, and the
\* rest of read_from_file runs on what was gathered.
ReadToEnd ==
    /\ reading.pc = "read"
    /\ Len(files[CodecPath]) <= Len(reading.all_data)
    /\ \E build \in Builds :
          reading' = [reading EXCEPT
                        !.pc = "done", !.build = build,
                        !.result = read_from_bytes(reading.reader, reading.all_data, build)]
    /\ UNCHANGED <<files, cache, chain, last, hist, buf, wr, rd, engine, played, travel,
                   timed, world, packed, writing>>

ConcurrentNext ==
    \/ FileCreate \/ WriteHeader \/ WritePayload \/ SyncAll
    \/ OpenFile \/ ReadSome \/ ReadToEnd

SpecConcurrent == ConcurrentInit /\ [][ConcurrentNext]_vars

(***************************************************************************)
(* Repeated next() (checked under SpecNextOnly)                            *)
(***************************************************************************)
\* C39: under repeated next() a non-looping engine of n >= 1 checkpoints
\* returns Some at each step that moves the index up by one, visiting the
\* indices up to n-1 in order, and from then on returns None for ever with
\* the index at n-1; a looping engine never returns None and visits every
\* index again and again.
C39_RepeatedNext ==
    /\ [][ /\ engine'.checkpoints = engine.checkpoints
           /\ ~engine.loop_replay =>
                IF get_index(engine) + 1 < len(engine)
                THEN /\ get_index(engine') = get_index(engine) + 1
                     /\ played'.ret = Some(engine.checkpoints[get_index(engine') + 1])
                ELSE /\ get_index(engine') = get_index(engine)
                     /\ played'.ret = None
           /\ engine.loop_replay => played'.ret # None ]_vars
    /\ <>[](~engine.loop_replay =>
               /\ get_index(engine) = len(engine) - 1
               /\ played.op = "next" /\ played.ret = None)
    /\ \A k \in 0..(MaxReplay - 1) :
          []<>((engine.loop_replay /\ k < len(engine)) =>
                  /\ get_index(engine) = k
                  /\ played.ret = Some(engine.checkpoints[k + 1]))

\* A looping engine of three has come round to index 0 again.
C39_Witness ==
    /\ engine.loop_replay /\ len(engine) = 3
    /\ played.op = "next" /\ get_index(engine) = 0
    /\ played.ret = Some(engine.checkpoints[1])

(***************************************************************************)
(* The two headers of a container (checked under SpecRoundTrip)            *)
(***************************************************************************)
\* The fields write_to_file / write_to_bytes compute for the outer header.
ComputedFields == {"compression", "encrypted", "checksum", "data_offset", "data_size"}

\* C37: the header inside the snapshot the reader returns agrees with the
\* outer header of the container it was read from on compression, encrypted,
\* checksum, data_offset and data_size.
C37_HeadersAgree ==
    (ReadBack /\ rd.result.res = "Ok") =>
        \A f \in ComputedFields :
            rd.result.snapshot[1].header[f] = HeaderOf(Container)[f]

\* C37 for the three fields a writer could match by luck: even they differ.
C37_CodecFieldsAgree ==
    (ReadBack /\ rd.result.res = "Ok") =>
        \A f \in {"compression", "encrypted"} :
            rd.result.snapshot[1].header[f] = HeaderOf(Container)[f]

(***************************************************************************)
(* from_world_snapshot (checked under SpecPack)                            *)
(***************************************************************************)
NoRepeat(seq) == \A i, j \in 1..Len(seq) : seq[i] = seq[j] => i = j

\* The entity ids that occur in some archetype of the snapshot.
ArchetypeEntities(snapshot) ==
    UNION { Range(snapshot.archetypes[i].entity_ids) : i \in 1..Len(snapshot.archetypes) }

\* C31: for every WorldSnapshot, entities without components and repeated
\* component ids included, from_world_snapshot yields archetypes with unique
\* component_ids, no entity id twice inside one archetype, and a header
\* whose archetype_count is the number of archetypes, component_count the
\* number of distinct component ids and entity_count the number of distinct
\* entity ids that occur in the archetypes.
C31_PackedWorldIsConsistent ==
    packed.done =>
        LET s == packed.snapshot IN
        /\ NoRepeat([i \in 1..Len(s.archetypes) |-> s.archetypes[i].component_id])
        /\ \A i \in 1..Len(s.archetypes) : NoRepeat(s.archetypes[i].entity_ids)
        /\ s.header.archetype_count = Len(s.archetypes)
        /\ s.header.component_count =
              Cardinality({s.archetypes[i].component_id : i \in 1..Len(s.archetypes)})
        /\ s.header.entity_count = Cardinality(ArchetypeEntities(s))

\* C31 without the two parts that fail: component ids are unique and the two
\* archetype counts are right for every world.
C31_ArchetypesAreConsistent ==
    packed.done =>
        LET s == packed.snapshot IN
        /\ NoRepeat([i \in 1..Len(s.archetypes) |-> s.archetypes[i].component_id])
        /\ s.header.archetype_count = Len(s.archetypes)
        /\ s.header.component_count =
              Cardinality({s.archetypes[i].component_id : i \in 1..Len(s.archetypes)})

\* C31, entity ids: one entity carrying one component once is enough to see
\* whether entity_ids repeats an id.
C31_EntityIdsUnique ==
    packed.done => \A i \in 1..Len(packed.snapshot.archetypes) :
                      NoRepeat(packed.snapshot.archetypes[i].entity_ids)

\* C31, entity_count alone.
C31_EntityCountIsArchetypeEntities ==
    packed.done =>
        packed.snapshot.header.entity_count = Cardinality(ArchetypeEntities(packed.snapshot))

(***************************************************************************)
(* Reading while writing (checked under SpecConcurrent)                    *)
(***************************************************************************)
\* C36: a read_from_file that runs while write_to_file writes the same path
\* never returns Ok with a snapshot other than one whose container was
\* written to the path in full: it fails, or returns a whole snapshot.
C36_NoTornRead ==
    (reading.pc = "done" /\ reading.result.res = "Ok") =>
        reading.result.snapshot[1] \in writing.written

\* The read began on the old container, went on in the new one, and was
\* given the new snapshot.
C36_Witness ==
    /\ reading.pc = "done" /\ reading.result.res = "Ok"
    /\ Cardinality(writing.written) = 2
    /\ reading.result.snapshot = writing.snapshot
    /\ reading.torn

\* A read that held part of the old container and went on in the new one
\* was refused by the checksum.
C36_WitnessRefused ==
    /\ reading.pc = "done" /\ reading.torn
    /\ reading.result.res = "ChecksumMismatch"

====
